---- MODULE Spec2Model ----
(***************************************************************************)
(* Model of terraform-provider-appleappstoreconnect.                       *)
(*                                                                         *)
(* Two state machines share this module:                                   *)
(*   TokenSpec  the API client's bearer-token cache (Client.getToken and   *)
(*              Client.generateToken), several goroutines calling          *)
(*              getToken concurrently under the client's sync.RWMutex;     *)
(*   CertSpec   the certificate resource's lifecycle (Create, Read,        *)
(*              Update, Delete, the expiration plan modifier);             *)
(*   CreateSpec the certificate resource's Create over every certificate   *)
(*              type.                                                      *)
(* Each specification leaves the other machine's variables untouched.      *)
(***************************************************************************)
EXTENDS Integers, Sequences, FiniteSets, TLC

(***************************************************************************)
(* Bounds of the token model.  The clock counts minutes.                   *)
(***************************************************************************)
NumCallers == 2
MaxClock == 40
TickStep == 5
MaxTokens == 4

\* tokenExpiration = 20 * time.Minute, tokenRefreshBuffer = 5 * time.Minute
tokenExpiration == 20
tokenRefreshBuffer == 5

Callers == 1..NumCallers

\* The empty token string "" of a fresh Client.
NoToken == [iat |-> 0, exp |-> 0, sig |-> 0]

VARIABLES
    keyIsEC,       \* the PKCS8 key NewClient accepted is an ECDSA key (ES256 can sign)
    clock,         \* time.Now(), minutes
    currentToken,  \* Client.currentToken
    tokenExpiry,   \* Client.tokenExpiry
    muWriter,      \* Client.mu: the goroutine that called Lock (0: none)
    muReaders,     \* Client.mu: the goroutines holding RLock
    pc,            \* where each goroutine is inside getToken
    token,         \* getToken's local variable token
    ret,           \* the token the goroutine's last call returned
    retErr,        \* the last call returned an error
    retAt,         \* clock when the last call returned
    checkedAt,     \* clock reading the returned token's validity rests on
    drift,         \* cached tokenExpiry minus the returned token's own exp
    issued         \* history: tokens stored in the cache, in order

tokenVars == <<keyIsEC, clock, currentToken, tokenExpiry, muWriter, muReaders,
               pc, token, ret, retErr, retAt, checkedAt, drift, issued>>

(***************************************************************************)
(* The certificate resource.  The clock counts hours.                      *)
(***************************************************************************)
VARIABLES
    rev,       \* which revision of the certificate resource serves the calls
    nowHr,     \* time.Now(), hours
    tfState,   \* the tracked (Terraform state) record of the certificate
    last       \* the last operation: its inputs, diagnostics and remote calls

certVars == <<rev, nowHr, tfState, last>>

(***************************************************************************)
(* The data sources (certificate, pass type id): each Read is one call.    *)
(***************************************************************************)
VARIABLES
    ds         \* the last Read of a data source: configuration, remote answer,
               \* diagnostics, remote calls and the state it set

dataVars == <<ds>>

(***************************************************************************)
(* Client.Do: one request of a goroutine, from the call to the return.     *)
(***************************************************************************)
VARIABLES
    doPc,      \* where each goroutine is inside Client.Do
    attempts,  \* how often the call has run c.httpClient.Do
    httpOut,   \* what the transport gave the call
    doRet      \* what the call returned: (*Response, error)

doVars == <<doPc, attempts, httpOut, doRet>>

(***************************************************************************)
(* NewClient: the construction of the Client out of the provider's         *)
(* configuration.                                                          *)
(***************************************************************************)
VARIABLES
    construction   \* the last call of NewClient: its arguments and its result

newVars == <<construction>>

(***************************************************************************)
(* The configuration of the provider.                                      *)
(***************************************************************************)
VARIABLES
    configuration   \* the call of Configure: its inputs and what it left

configVars == <<configuration>>

(***************************************************************************)
(* The provider functions pkcs12_encode and pkcs12_decode.                 *)
(***************************************************************************)
VARIABLES
    fn   \* the last calls of the two functions: arguments and results

funcVars == <<fn>>

vars == <<tokenVars, certVars, dataVars, doVars, newVars, configVars, funcVars>>

\* What the actions of one machine leave alone.
outsideToken == <<certVars, dataVars, doVars, newVars, configVars, funcVars>>
outsideCert == <<tokenVars, dataVars, doVars, newVars, configVars, funcVars>>
outsideData == <<tokenVars, certVars, doVars, newVars, configVars, funcVars>>
outsideClient == <<certVars, dataVars, newVars, configVars, funcVars>>
outsideNewClient == <<certVars, dataVars, doVars, configVars, funcVars>>

TokenStart ==
    /\ clock = 0
    /\ currentToken = NoToken
    /\ tokenExpiry = 0
    /\ muWriter = 0
    /\ muReaders = {}
    /\ pc = [c \in Callers |-> "idle"]
    /\ token = [c \in Callers |-> NoToken]
    /\ ret = [c \in Callers |-> NoToken]
    /\ retErr = [c \in Callers |-> FALSE]
    /\ retAt = [c \in Callers |-> 0]
    /\ checkedAt = [c \in Callers |-> 0]
    /\ drift = [c \in Callers |-> 0]
    /\ issued = <<>>

TokenInit == keyIsEC \in BOOLEAN /\ TokenStart

\* time.Now() moves on between any two steps of any goroutine.
Tick ==
    /\ UNCHANGED outsideToken
    /\ clock + TickStep <= MaxClock
    /\ clock' = clock + TickStep
    /\ UNCHANGED <<keyIsEC, currentToken, tokenExpiry, muWriter, muReaders,
                   pc, token, ret, retErr, retAt, checkedAt, drift, issued>>

\* c.currentToken != "" && time.Now().Before(c.tokenExpiry.Add(-tokenRefreshBuffer))
CachedTokenUsableNoBuffer == currentToken # NoToken /\ clock < tokenExpiry
CachedTokenUsable ==
    currentToken # NoToken /\ clock < tokenExpiry - tokenRefreshBuffer

\* The first step of getToken: the goroutine's locals are fresh.
EnterGetToken(c) ==
    /\ pc[c] \in {"idle", "done"}
    /\ Len(issued) < MaxTokens
    /\ pc' = [pc EXCEPT ![c] = "rlock"]
    /\ token' = [token EXCEPT ![c] = NoToken]
    /\ ret' = [ret EXCEPT ![c] = NoToken]
    /\ retErr' = [retErr EXCEPT ![c] = FALSE]
    /\ retAt' = [retAt EXCEPT ![c] = 0]
    /\ checkedAt' = [checkedAt EXCEPT ![c] = 0]
    /\ drift' = [drift EXCEPT ![c] = 0]
    /\ UNCHANGED <<keyIsEC, clock, currentToken, tokenExpiry, muWriter, muReaders, issued>>

\* A goroutine enters getToken.
Call(c) ==
    /\ UNCHANGED outsideToken
    /\ EnterGetToken(c)

\* c.mu.RLock(): blocks while a writer holds or waits for the lock.
RLock(c) ==
    /\ UNCHANGED outsideToken
    /\ pc[c] = "rlock"
    /\ muWriter = 0
    /\ muReaders' = muReaders \cup {c}
    /\ pc' = [pc EXCEPT ![c] = "fast"]
    /\ UNCHANGED <<keyIsEC, clock, currentToken, tokenExpiry, muWriter,
                   token, ret, retErr, retAt, checkedAt, drift, issued>>

\* The fast path's condition, evaluated under the read lock.
FastCheck(c) ==
    /\ UNCHANGED outsideToken
    /\ pc[c] = "fast"
    /\ IF CachedTokenUsable
       THEN /\ token' = [token EXCEPT ![c] = currentToken]
            /\ checkedAt' = [checkedAt EXCEPT ![c] = clock]
            /\ drift' = [drift EXCEPT ![c] = tokenExpiry - currentToken.exp]
            /\ pc' = [pc EXCEPT ![c] = "hit"]
       ELSE /\ pc' = [pc EXCEPT ![c] = "miss"]
            /\ UNCHANGED <<token, checkedAt, drift>>
    /\ UNCHANGED <<keyIsEC, clock, currentToken, tokenExpiry, muWriter, muReaders,
                   ret, retErr, retAt, issued>>

\* c.mu.RUnlock(); return token, nil
FastReturn(c) ==
    /\ UNCHANGED outsideToken
    /\ pc[c] = "hit"
    /\ muReaders' = muReaders \ {c}
    /\ ret' = [ret EXCEPT ![c] = token[c]]
    /\ retAt' = [retAt EXCEPT ![c] = clock]
    /\ pc' = [pc EXCEPT ![c] = "done"]
    /\ UNCHANGED <<keyIsEC, clock, currentToken, tokenExpiry, muWriter,
                   token, retErr, checkedAt, drift, issued>>

\* c.mu.RUnlock() on the way to the slow path.
RUnlockMissKeepsRLock(c) ==
    /\ UNCHANGED outsideToken
    /\ pc[c] = "miss"
    /\ muReaders' = muReaders
    /\ pc' = [pc EXCEPT ![c] = "lock"]
    /\ UNCHANGED <<keyIsEC, clock, currentToken, tokenExpiry, muWriter,
                   token, ret, retErr, retAt, checkedAt, drift, issued>>

RUnlockMiss(c) ==
    /\ UNCHANGED outsideToken
    /\ pc[c] = "miss"
    /\ muReaders' = muReaders \ {c}
    /\ pc' = [pc EXCEPT ![c] = "lock"]
    /\ UNCHANGED <<keyIsEC, clock, currentToken, tokenExpiry, muWriter,
                   token, ret, retErr, retAt, checkedAt, drift, issued>>

\* c.mu.Lock(): the writer announces itself (new readers now block) ...
Lock(c) ==
    /\ UNCHANGED outsideToken
    /\ pc[c] = "lock"
    /\ muWriter = 0
    /\ muWriter' = c
    /\ pc' = [pc EXCEPT ![c] = "lockwait"]
    /\ UNCHANGED <<keyIsEC, clock, currentToken, tokenExpiry, muReaders,
                   token, ret, retErr, retAt, checkedAt, drift, issued>>

\* ... and proceeds once the readers that were inside have left.
LockAcquired(c) ==
    /\ UNCHANGED outsideToken
    /\ pc[c] = "lockwait"
    /\ muWriter = c
    /\ muReaders = {}
    /\ pc' = [pc EXCEPT ![c] = "recheck"]
    /\ UNCHANGED <<keyIsEC, clock, currentToken, tokenExpiry, muWriter, muReaders,
                   token, ret, retErr, retAt, checkedAt, drift, issued>>

\* Double-check after acquiring write lock.
DoubleCheckSkipped(c) ==
    /\ UNCHANGED outsideToken
    /\ pc[c] = "recheck"
    /\ pc' = [pc EXCEPT ![c] = "generate"]
    /\ UNCHANGED <<keyIsEC, clock, currentToken, tokenExpiry, muWriter, muReaders,
                   token, ret, retErr, retAt, checkedAt, drift, issued>>

DoubleCheck(c) ==
    /\ UNCHANGED outsideToken
    /\ pc[c] = "recheck"
    /\ IF CachedTokenUsable
       THEN /\ token' = [token EXCEPT ![c] = currentToken]
            /\ checkedAt' = [checkedAt EXCEPT ![c] = clock]
            /\ drift' = [drift EXCEPT ![c] = tokenExpiry - currentToken.exp]
            /\ pc' = [pc EXCEPT ![c] = "unlock"]
       ELSE /\ pc' = [pc EXCEPT ![c] = "generate"]
            /\ UNCHANGED <<token, checkedAt, drift>>
    /\ UNCHANGED <<keyIsEC, clock, currentToken, tokenExpiry, muWriter, muReaders,
                   ret, retErr, retAt, issued>>

\* The claims generateToken signs at the clock reading now: iat = now,
\* exp = now + tokenExpiration.  sig stands for the ES256 signature, which is
\* drawn with fresh randomness at every signing.
Claims(now, n) == [iat |-> now, exp |-> now + tokenExpiration, sig |-> n]

\* token, err := c.generateToken()
generateToken(c) ==
    /\ UNCHANGED outsideToken
    /\ pc[c] = "generate"
    /\ IF keyIsEC
       THEN /\ token' = [token EXCEPT ![c] = Claims(clock, Len(issued) + 1)]
            /\ checkedAt' = [checkedAt EXCEPT ![c] = clock]
            /\ pc' = [pc EXCEPT ![c] = "store"]
            /\ UNCHANGED retErr
       ELSE /\ retErr' = [retErr EXCEPT ![c] = TRUE]
            /\ pc' = [pc EXCEPT ![c] = "unlock"]
            /\ UNCHANGED <<token, checkedAt>>
    /\ UNCHANGED <<keyIsEC, clock, currentToken, tokenExpiry, muWriter, muReaders,
                   ret, retAt, drift, issued>>

\* c.currentToken = token; c.tokenExpiry = time.Now().Add(tokenExpiration)
StoreKeepsExpiry(c) ==
    /\ UNCHANGED outsideToken
    /\ pc[c] = "store"
    /\ currentToken' = token[c]
    /\ tokenExpiry' = tokenExpiry
    /\ issued' = Append(issued, [tok |-> token[c],
                                 expiry |-> tokenExpiry,
                                 decidedAt |-> checkedAt[c]])
    /\ drift' = [drift EXCEPT ![c] = 0]
    /\ pc' = [pc EXCEPT ![c] = "unlock"]
    /\ UNCHANGED <<keyIsEC, clock, muWriter, muReaders,
                   token, ret, retErr, retAt, checkedAt>>

Store(c) ==
    /\ UNCHANGED outsideToken
    /\ pc[c] = "store"
    /\ currentToken' = token[c]
    /\ tokenExpiry' = clock + tokenExpiration
    /\ issued' = Append(issued, [tok |-> token[c],
                                 expiry |-> clock + tokenExpiration,
                                 decidedAt |-> checkedAt[c]])
    /\ drift' = [drift EXCEPT ![c] = 0]
    /\ pc' = [pc EXCEPT ![c] = "unlock"]
    /\ UNCHANGED <<keyIsEC, clock, muWriter, muReaders,
                   token, ret, retErr, retAt, checkedAt>>

\* The deferred c.mu.Unlock(), then the return of (token, nil) or ("", err).
UnlockReturn(c) ==
    /\ UNCHANGED outsideToken
    /\ pc[c] = "unlock"
    /\ muWriter = c
    /\ muWriter' = 0
    /\ ret' = [ret EXCEPT ![c] = IF retErr[c] THEN NoToken ELSE token[c]]
    /\ retAt' = [retAt EXCEPT ![c] = clock]
    /\ pc' = [pc EXCEPT ![c] = "done"]
    /\ UNCHANGED <<keyIsEC, clock, currentToken, tokenExpiry, muReaders,
                   token, retErr, checkedAt, drift, issued>>

getToken(c) ==
    \/ Call(c)
    \/ RLock(c)
    \/ FastCheck(c)
    \/ FastReturn(c)
    \/ RUnlockMiss(c)
    \/ Lock(c)
    \/ LockAcquired(c)
    \/ DoubleCheck(c)
    \/ generateToken(c)
    \/ Store(c)
    \/ UnlockReturn(c)

TokenNext ==
    \/ Tick
    \/ \E c \in Callers : getToken(c)

(***************************************************************************)
(* Bounds of the certificate model.                                        *)
(***************************************************************************)
MaxHours == 960
HourStep == 480
NumSalts == 2

\* time.Duration is an int64 count of nanoseconds: 2^63 ns are 2562047.8 hours.
\* In whole hours, a duration wraps around at this many hours.
MaxDurationHours == 2562048

\* recreate_threshold is kept in hours here: 2592000 seconds are 720 hours.
DefaultRecreateThreshold == 2592000 \div 3600
HugeRecreateThreshold == MaxDurationHours

\* The revisions of the certificate resource in the repository.
RevPKCS12 == "unnamed/part_023"
RevThreshold == "unnamed/part_024"
RevBase == "internal/provider/certificate_resource.go"
Revisions == {RevPKCS12, RevThreshold, RevBase}

\* Certificate types (certificate_types.go)
CertificateTypePassTypeID == "PASS_TYPE_ID"
CertificateTypePassTypeIDWithNFC == "PASS_TYPE_ID_WITH_NFC"
CertificateTypeIOSDevelopment == "IOS_DEVELOPMENT"
CertificateTypes ==
    {"IOS_DEVELOPMENT", "IOS_DISTRIBUTION", "MAC_APP_DEVELOPMENT",
     "MAC_APP_DISTRIBUTION", "MAC_INSTALLER_DISTRIBUTION", "PASS_TYPE_ID",
     "PASS_TYPE_ID_WITH_NFC", "DEVELOPER_ID_KEXT", "DEVELOPER_ID_APPLICATION",
     "DEVELOPMENT_PUSH_SSL", "PRODUCTION_PUSH_SSL", "PUSH_SSL"}

(***************************************************************************)
(* terraform-plugin-framework attribute values: null, unknown or known.    *)
(* ValueString()/ValueInt64() of a null or unknown value is the zero value *)
(* (the filler).                                                           *)
(***************************************************************************)
Null(filler) == [st |-> "null", v |-> filler]
Unknown(filler) == [st |-> "unknown", v |-> filler]
Known(x) == [st |-> "known", v |-> x]
IsNull(a) == a.st = "null"
IsUnknown(a) == a.st = "unknown"

\* A base64 text: whether base64.StdEncoding decodes it, and to which bytes.
\* Byte strings are named: "" (no bytes), "certA" and "certB" (DER of two
\* certificates), "junk" (bytes that are no certificate).
EmptyText == [valid |-> TRUE, bytes |-> ""]
MalformedBase64 == [valid |-> FALSE, bytes |-> ""]
Base64Of(b) == [valid |-> TRUE, bytes |-> b]

\* A PEM block, as the base64 text of its encoding.
NoPEM == [type |-> "", der |-> ""]
\* A PKCS12 bundle, by what it decrypts to; salt stands for the random salt
\* and IV pkcs12.Modern.Encode draws.
NoBundle == [cert |-> "", key |-> "", password |-> "", salt |-> 0]

NullStr == Null("")
\* The zero value of a timestamp string.
NoTimestamp == [wall |-> 0, suffix |-> ""]
NoRelationships == [pass_type_id |-> NullStr]

\* CertificateResourceModel; present = FALSE is a null state or plan (Raw.IsNull()).
NullModel ==
    [present |-> FALSE,
     id |-> NullStr,
     certificate_type |-> NullStr,
     csr_content |-> NullStr,
     private_key_pem |-> NullStr,
     certificate_content |-> Null(EmptyText),
     certificate_content_pem |-> Null(NoPEM),
     certificate_ca_issuers |-> Null(<<>>),
     display_name |-> NullStr,
     name |-> NullStr,
     platform |-> NullStr,
     serial_number |-> NullStr,
     expiration_date |-> Null(NoTimestamp),
     recreate_threshold |-> Null(0),
     relationships |-> Null(NoRelationships),
     pkcs12_bundle_password |-> NullStr,
     pkcs12_bundle_content |-> Null(NoBundle)]

\* The Certificate the API answers with (certificate_types.go, Certificate).
NoExpiration == [present |-> FALSE, t |-> 0, off |-> 0]
ExpiresAt(t, off) == [present |-> TRUE, t |-> t, off |-> off]
NoPassTypeId == [present |-> FALSE, id |-> ""]

EmptyCertificate ==
    [id |-> "", certificateType |-> "", certificateContent |-> EmptyText,
     displayName |-> "", name |-> "", platform |-> "", serialNumber |-> "",
     expirationDate |-> NoExpiration, passTypeId |-> NoPassTypeId]

\* serialNumber, displayName, name and platform go with the certificate bytes.
SerialOf(content) ==
    IF content = Base64Of("certA") THEN "SN-A"
    ELSE IF content = Base64Of("certB") THEN "SN-B" ELSE ""
DisplayNameOf(content) ==
    IF content = Base64Of("certA") THEN "Pass Type ID: pass.a"
    ELSE IF content = Base64Of("certB") THEN "Pass Type ID: pass.b" ELSE ""
PlatformOf(content) == IF content = Base64Of("certB") THEN "IOS" ELSE ""

RemoteContents ==
    {EmptyText, MalformedBase64, Base64Of("junk"), Base64Of("certA"), Base64Of("certB")}
RemoteExpirations == {NoExpiration, ExpiresAt(240, 0), ExpiresAt(960, 2)}
RemotePassTypeIds == {NoPassTypeId, [present |-> TRUE, id |-> "PT1"]}

RemoteCertificate(type, content, exp, ptid) ==
    [id |-> "CERT1", certificateType |-> type, certificateContent |-> content,
     displayName |-> DisplayNameOf(content), name |-> DisplayNameOf(content),
     platform |-> PlatformOf(content), serialNumber |-> SerialOf(content),
     expirationDate |-> exp, passTypeId |-> ptid]

(***************************************************************************)
(* The certificate material pipeline.                                      *)
(***************************************************************************)
\* x509.ParseCertificate succeeds on these bytes.
IsCertificate(bytes) == bytes \in {"certA", "certB"}
\* The private key PEMs generatePKCS12Bundle can parse.
IsPrivateKey(k) == k = "keyA"

\* convertDERToPEM: base64-decode, wrap as a CERTIFICATE block, base64-encode.
convertDERToPEM(base64DER) ==
    IF ~base64DER.valid
    THEN [err |-> TRUE, pem |-> NoPEM]
    ELSE [err |-> FALSE, pem |-> [type |-> "CERTIFICATE", der |-> base64DER.bytes]]

\* extractCertificateCAIssuers: the CA Issuers URIs of the Authority
\* Information Access extension; an error on malformed base64 or bytes that
\* are no certificate; the empty list when the certificate names none.
extractCertificateCAIssuers(base64DER) ==
    IF ~base64DER.valid \/ ~IsCertificate(base64DER.bytes)
    THEN [err |-> TRUE, issuers |-> <<>>]
    ELSE [err |-> FALSE,
          issuers |-> IF base64DER.bytes = "certA"
                      THEN <<"http://certs.example/ca-a.cer">> ELSE <<>>]

\* expirationDate.Format("2006-01-02T15:04:05Z"): the wall clock of the time in
\* its own zone, followed by a literal Z.
FormatExpiration(e) == [wall |-> e.t + e.off, suffix |-> "Z"]
\* time.Parse("2006-01-02T15:04:05Z", s): the wall clock read as UTC; an
\* error unless the text ends in the literal Z.
Parsable(s) == s.suffix = "Z"
ParseExpiration(s) == s.wall

\* time.Duration(thresholdSeconds) * time.Second, an int64 product.
Duration(h) == ((h + MaxDurationHours) % (2 * MaxDurationHours)) - MaxDurationHours

\* generatePKCS12Bundle(certPEM, privateKeyPEM, password)
generatePKCS12Bundle(certPEM, privateKeyPEM, password, salt) ==
    IF certPEM.type # "CERTIFICATE" \/ ~IsCertificate(certPEM.der)
       \/ ~IsPrivateKey(privateKeyPEM)
    THEN [err |-> TRUE, p12 |-> NoBundle]
    ELSE [err |-> FALSE,
          p12 |-> [cert |-> certPEM.der, key |-> privateKeyPEM,
                   password |-> password, salt |-> salt]]

\* updatePKCS12Bundle(data): the bundle when password, key and PEM are all
\* there, null otherwise.
updatePKCS12Bundle(data, salt) ==
    IF /\ ~IsNull(data.pkcs12_bundle_password) /\ ~IsUnknown(data.pkcs12_bundle_password)
       /\ ~IsNull(data.private_key_pem) /\ ~IsUnknown(data.private_key_pem)
       /\ ~IsNull(data.certificate_content_pem) /\ ~IsUnknown(data.certificate_content_pem)
    THEN LET g == generatePKCS12Bundle(data.certificate_content_pem.v,
                                       data.private_key_pem.v,
                                       data.pkcs12_bundle_password.v, salt)
         IN IF g.err
            THEN [err |-> TRUE, data |-> data]
            ELSE [err |-> FALSE,
                  data |-> [data EXCEPT !.pkcs12_bundle_content = Known(g.p12)]]
    ELSE [err |-> FALSE,
          data |-> [data EXCEPT !.pkcs12_bundle_content = Null(NoBundle)]]

(***************************************************************************)
(* The handlers of the certificate resource.  Each yields the state the    *)
(* framework stores after the call, the diagnostics and the remote calls.  *)
(***************************************************************************)
Result(st, errs, warns, calls) ==
    [state |-> st, errors |-> errs, warnings |-> warns, calls |-> calls]

\* certType == CertificateTypePassTypeID || certType == CertificateTypePassTypeIDWithNFC
RequiresPassTypeIDOnlyPlain(certType) == certType = CertificateTypePassTypeID
RequiresPassTypeID(certType) ==
    certType = CertificateTypePassTypeID \/ certType = CertificateTypePassTypeIDWithNFC

\* var relationships CertificateRelationshipsModel; filled from the plan's
\* object unless that is null or unknown.
RelationshipsOf(data) ==
    IF ~IsNull(data.relationships) /\ ~IsUnknown(data.relationships)
    THEN data.relationships.v
    ELSE NoRelationships

PostCertificate == [method |-> "POST", endpoint |-> "/certificates"]
GetCertificate == [method |-> "GET", endpoint |-> "/certificates/{id}"]
DeleteCertificate == [method |-> "DELETE", endpoint |-> "/certificates/{id}"]

\* The attributes Create and Read copy from the response.
WithAttributes(data, cert) ==
    [data EXCEPT !.certificate_content = Known(cert.certificateContent),
                 !.display_name = Known(cert.displayName),
                 !.name = Known(cert.name),
                 !.platform = Known(cert.platform),
                 !.serial_number = Known(cert.serialNumber)]

\* "Convert DER to PEM format" and "Extract certificate CA issuers": the two
\* blocks Create and Read of part_023 run on the response's content.  err
\* names the diagnostic of the block that failed.
WithDerivedKeepsPEM(data, cert) ==
    [err |-> "", data |-> data]

WithDerived(data, cert) ==
    LET content == cert.certificateContent
        pem == convertDERToPEM(content)
        ca == extractCertificateCAIssuers(content)
    IN IF content # EmptyText /\ pem.err
       THEN [err |-> "Certificate Conversion Error", data |-> data]
       ELSE IF content # EmptyText /\ ca.err
       THEN [err |-> "Certificate CA Issuers Parsing Error", data |-> data]
       ELSE [err |-> "",
             data |-> [data EXCEPT
                 !.certificate_content_pem =
                     IF content # EmptyText THEN Known(pem.pem) ELSE Null(NoPEM),
                 !.certificate_ca_issuers =
                     IF content # EmptyText THEN Known(ca.issuers) ELSE Null(<<>>)]]

\* if cert.Attributes.ExpirationDate != nil { ... } else { types.StringNull() }
WithExpiration(data, cert) ==
    [data EXCEPT !.expiration_date =
        IF cert.expirationDate.present
        THEN Known(FormatExpiration(cert.expirationDate))
        ELSE Null(NoTimestamp)]

\* part_023, CertificateResource.Create
Create023(plan, out, salt) ==
    LET relationships == RelationshipsOf(plan)
        certType == plan.certificate_type.v
    IN IF RequiresPassTypeID(certType) /\ IsNull(relationships.pass_type_id)
       THEN Result(NullModel, {"Missing Pass Type ID"}, {}, <<>>)
       ELSE IF out.kind = "err"
       THEN Result(NullModel, {"Client Error"}, {}, <<PostCertificate>>)
       ELSE IF out.kind = "baddata"
       THEN Result(NullModel, {"Parse Error"}, {}, <<PostCertificate>>)
       ELSE
         LET cert == out.cert
             d1 == [WithAttributes(plan, cert) EXCEPT !.id = Known(cert.id)]
             dv == WithDerived(d1, cert)
             d2 == WithExpiration(dv.data, cert)
             d3 == IF IsNull(d2.recreate_threshold) \/ IsUnknown(d2.recreate_threshold)
                   THEN [d2 EXCEPT !.recreate_threshold = Known(DefaultRecreateThreshold)]
                   ELSE d2
             p == updatePKCS12Bundle(d3, salt)
         IN IF dv.err # ""
            THEN Result(NullModel, {dv.err}, {}, <<PostCertificate>>)
            ELSE IF p.err
            THEN Result(NullModel, {"PKCS12 Bundle Generation Error"}, {}, <<PostCertificate>>)
            ELSE Result(p.data, {}, {}, <<PostCertificate>>)

\* part_024, CertificateResource.Create
Create024(plan, out) ==
    LET relationships == RelationshipsOf(plan)
        certType == plan.certificate_type.v
    IN IF RequiresPassTypeID(certType) /\ IsNull(relationships.pass_type_id)
       THEN Result(NullModel, {"Missing Pass Type ID"}, {}, <<>>)
       ELSE IF out.kind = "err"
       THEN Result(NullModel, {"Client Error"}, {}, <<PostCertificate>>)
       ELSE IF out.kind = "baddata"
       THEN Result(NullModel, {"Parse Error"}, {}, <<PostCertificate>>)
       ELSE
         LET cert == out.cert
             d1 == [WithAttributes(plan, cert) EXCEPT !.id = Known(cert.id)]
             d2 == WithExpiration(d1, cert)
             d3 == IF IsNull(d2.recreate_threshold)
                   THEN [d2 EXCEPT !.recreate_threshold = Known(DefaultRecreateThreshold)]
                   ELSE d2
         IN Result(d3, {}, {}, <<PostCertificate>>)

\* certificate_resource.go unmarshals Response.Data, the resource object
\* itself, into CertificateResponse, whose only members are "data" and
\* "links": the object has no "data" member, so Data stays the zero
\* Certificate.
UnmarshalAsCertificateResponse(cert) == EmptyCertificate

\* internal/provider/certificate_resource.go, CertificateResource.Create
CreateBase(plan, out) ==
    LET relationships == RelationshipsOf(plan)
        certType == plan.certificate_type.v
    IN IF RequiresPassTypeID(certType) /\ IsNull(relationships.pass_type_id)
       THEN Result(NullModel, {"Missing Pass Type ID"}, {}, <<>>)
       ELSE IF out.kind = "err"
       THEN Result(NullModel, {"Client Error"}, {}, <<PostCertificate>>)
       ELSE IF out.kind = "baddata"
       THEN Result(NullModel, {"Parse Error"}, {}, <<PostCertificate>>)
       ELSE
         LET cert == UnmarshalAsCertificateResponse(out.cert)
             d1 == [WithAttributes(plan, cert) EXCEPT !.id = Known(cert.id)]
             d2 == IF cert.expirationDate.present
                   THEN [d1 EXCEPT !.expiration_date =
                                       Known(FormatExpiration(cert.expirationDate))]
                   ELSE d1
         IN Result(d2, {}, {}, <<PostCertificate>>)

\* "Update relationships if present"
WithRelationships(data, cert) ==
    IF cert.passTypeId.present
    THEN [data EXCEPT !.relationships =
                          Known([pass_type_id |-> Known(cert.passTypeId.id)])]
    ELSE data

\* part_023, CertificateResource.Read.  The three PKCS12-related fields are
\* saved before the call and restored after it.
Read023OmitsType(data, out) ==
    IF out.kind = "err"
    THEN Result(data, {"Client Error"}, {}, <<GetCertificate>>)
    ELSE IF out.kind = "baddata"
    THEN Result(data, {"Parse Error"}, {}, <<GetCertificate>>)
    ELSE
      LET cert == out.cert
          d1 == WithAttributes(data, cert)
          dv == WithDerived(d1, cert)
          d2 == WithRelationships(WithExpiration(dv.data, cert), cert)
          d3 == [d2 EXCEPT !.private_key_pem = data.private_key_pem,
                           !.pkcs12_bundle_password = data.pkcs12_bundle_password,
                           !.pkcs12_bundle_content = data.pkcs12_bundle_content]
      IN IF dv.err # ""
         THEN Result(data, {dv.err}, {}, <<GetCertificate>>)
         ELSE Result(d3, {}, {}, <<GetCertificate>>)

Read023(data, out) ==
    IF out.kind = "err"
    THEN Result(data, {"Client Error"}, {}, <<GetCertificate>>)
    ELSE IF out.kind = "baddata"
    THEN Result(data, {"Parse Error"}, {}, <<GetCertificate>>)
    ELSE
      LET cert == out.cert
          d1 == [WithAttributes(data, cert) EXCEPT
                     !.certificate_type = Known(cert.certificateType)]
          dv == WithDerived(d1, cert)
          d2 == WithRelationships(WithExpiration(dv.data, cert), cert)
          d3 == [d2 EXCEPT !.private_key_pem = data.private_key_pem,
                           !.pkcs12_bundle_password = data.pkcs12_bundle_password,
                           !.pkcs12_bundle_content = data.pkcs12_bundle_content]
      IN IF dv.err # ""
         THEN Result(data, {dv.err}, {}, <<GetCertificate>>)
         ELSE Result(d3, {}, {}, <<GetCertificate>>)

\* part_024, CertificateResource.Read
Read024(data, out) ==
    IF out.kind = "err"
    THEN Result(data, {"Client Error"}, {}, <<GetCertificate>>)
    ELSE IF out.kind = "baddata"
    THEN Result(data, {"Parse Error"}, {}, <<GetCertificate>>)
    ELSE
      LET cert == out.cert
          d1 == [WithAttributes(data, cert) EXCEPT
                     !.certificate_type = Known(cert.certificateType)]
          d2 == WithRelationships(WithExpiration(d1, cert), cert)
      IN Result(d2, {}, {}, <<GetCertificate>>)

\* internal/provider/certificate_resource.go, CertificateResource.Read
ReadBase(data, out) ==
    IF out.kind = "err"
    THEN Result(data, {"Client Error"}, {}, <<GetCertificate>>)
    ELSE IF out.kind = "baddata"
    THEN Result(data, {"Parse Error"}, {}, <<GetCertificate>>)
    ELSE
      LET cert == UnmarshalAsCertificateResponse(out.cert)
          d1 == [WithAttributes(data, cert) EXCEPT
                     !.certificate_type = Known(cert.certificateType)]
          d2 == IF cert.expirationDate.present
                THEN [d1 EXCEPT !.expiration_date =
                                    Known(FormatExpiration(cert.expirationDate))]
                ELSE d1
      IN Result(WithRelationships(d2, cert), {}, {}, <<GetCertificate>>)

\* certificateFieldsChanged
certificateFieldsChangedIgnoresCSR(plan, state) ==
    \/ plan.certificate_type # state.certificate_type
    \/ plan.relationships # state.relationships

certificateFieldsChanged(plan, state) ==
    \/ plan.certificate_type # state.certificate_type
    \/ plan.csr_content # state.csr_content
    \/ plan.relationships # state.relationships

\* "Copy all the computed fields from state to plan"
CopyComputedDropsSerial(plan, state) ==
    [plan EXCEPT !.id = state.id,
                 !.certificate_content = state.certificate_content,
                 !.certificate_content_pem = state.certificate_content_pem,
                 !.certificate_ca_issuers = state.certificate_ca_issuers,
                 !.display_name = state.display_name,
                 !.name = state.name,
                 !.platform = state.platform,
                 !.expiration_date = state.expiration_date,
                 !.recreate_threshold = state.recreate_threshold,
                 !.relationships = state.relationships]

CopyComputed(plan, state) ==
    [plan EXCEPT !.id = state.id,
                 !.certificate_content = state.certificate_content,
                 !.certificate_content_pem = state.certificate_content_pem,
                 !.certificate_ca_issuers = state.certificate_ca_issuers,
                 !.display_name = state.display_name,
                 !.name = state.name,
                 !.platform = state.platform,
                 !.serial_number = state.serial_number,
                 !.expiration_date = state.expiration_date,
                 !.recreate_threshold = state.recreate_threshold,
                 !.relationships = state.relationships]

\* part_023, CertificateResource.Update
Update023(plan, state, salt) ==
    IF certificateFieldsChanged(plan, state)
    THEN Result(state, {"Update Not Supported"}, {}, <<>>)
    ELSE LET p == updatePKCS12Bundle(CopyComputed(plan, state), salt)
         IN IF p.err
            THEN Result(state, {"PKCS12 Bundle Generation Error"}, {}, <<>>)
            ELSE Result(p.data, {}, {}, <<>>)

\* part_024 and internal/provider/certificate_resource.go,
\* CertificateResource.Update: every update is refused.
UpdateRefused(plan, state) ==
    Result(state, {"Update Not Supported"}, {}, <<>>)

\* part_023 and part_024, CertificateResource.Delete: a warning and no call.
\* The framework removes the resource from state when Delete reports no error.
DeleteLocal(state) ==
    Result(NullModel, {}, {"Certificate Not Revoked"}, <<>>)

\* internal/provider/certificate_resource.go, CertificateResource.Delete
DeleteRemote(state, out) ==
    IF out.kind = "err"
    THEN Result(state, {"Client Error"}, {}, <<DeleteCertificate>>)
    ELSE Result(NullModel, {}, {}, <<DeleteCertificate>>)

\* CertificateRecreateThresholdPlanModifier.PlanModifyString: resp.RequiresReplace.
\* state is the tracked record, plan the planned one, now is time.Now().
PlanModifyStringNoZeroCheck(state, plan, now) ==
    IF ~state.present \/ ~plan.present THEN FALSE
    ELSE IF IsNull(state.expiration_date) \/ IsUnknown(state.expiration_date) THEN FALSE
    ELSE
      LET thresholdSeconds ==
              IF ~IsNull(plan.recreate_threshold) /\ ~IsUnknown(plan.recreate_threshold)
              THEN plan.recreate_threshold.v
              ELSE DefaultRecreateThreshold
      IN IF state.expiration_date.v = NoTimestamp THEN FALSE
         ELSE IF ~Parsable(state.expiration_date.v) THEN FALSE
         ELSE ParseExpiration(state.expiration_date.v) < now + Duration(thresholdSeconds)

PlanModifyStringUsesTrackedThreshold(state, plan, now) ==
    IF ~state.present THEN FALSE
    ELSE IF ~plan.present THEN FALSE
    ELSE IF IsNull(state.expiration_date) \/ IsUnknown(state.expiration_date) THEN FALSE
    ELSE
      LET thresholdSeconds ==
              IF ~IsNull(state.recreate_threshold) /\ ~IsUnknown(state.recreate_threshold)
              THEN state.recreate_threshold.v
              ELSE DefaultRecreateThreshold
      IN IF thresholdSeconds = 0 THEN FALSE
         ELSE IF state.expiration_date.v = NoTimestamp THEN FALSE
         ELSE IF ~Parsable(state.expiration_date.v) THEN FALSE
         ELSE
           LET expirationDate == ParseExpiration(state.expiration_date.v)
               thresholdTime == now + Duration(thresholdSeconds)
           IN expirationDate < thresholdTime

PlanModifyStringIgnoresParseError(state, plan, now) ==
    IF ~state.present THEN FALSE
    ELSE IF ~plan.present THEN FALSE
    ELSE IF IsNull(state.expiration_date) \/ IsUnknown(state.expiration_date) THEN FALSE
    ELSE
      LET thresholdSeconds ==
              IF ~IsNull(plan.recreate_threshold) /\ ~IsUnknown(plan.recreate_threshold)
              THEN plan.recreate_threshold.v
              ELSE DefaultRecreateThreshold
      IN IF thresholdSeconds = 0 THEN FALSE
         ELSE IF state.expiration_date.v = NoTimestamp THEN FALSE
         ELSE
           LET expirationDate == ParseExpiration(state.expiration_date.v)
               thresholdTime == now + Duration(thresholdSeconds)
           IN expirationDate < thresholdTime

PlanModifyString(state, plan, now) ==
    IF ~state.present THEN FALSE
    ELSE IF ~plan.present THEN FALSE
    ELSE IF IsNull(state.expiration_date) \/ IsUnknown(state.expiration_date) THEN FALSE
    ELSE
      LET thresholdSeconds ==
              IF ~IsNull(plan.recreate_threshold) /\ ~IsUnknown(plan.recreate_threshold)
              THEN plan.recreate_threshold.v
              ELSE DefaultRecreateThreshold
      IN IF thresholdSeconds = 0 THEN FALSE
         ELSE IF state.expiration_date.v = NoTimestamp THEN FALSE
         ELSE IF ~Parsable(state.expiration_date.v) THEN FALSE
         ELSE
           LET expirationDate == ParseExpiration(state.expiration_date.v)
               thresholdTime == now + Duration(thresholdSeconds)
           IN expirationDate < thresholdTime

(***************************************************************************)
(* The inputs the orchestrator and the remote service are drawn from.      *)
(***************************************************************************)
Salts == 1..NumSalts

PlanKeys == {NullStr, Known("keyA"), Known("notAKey")}
PlanPasswords == {NullStr, Known("pw1"), Known("pw2")}
PlanThresholds ==
    {Null(0), Unknown(0), Known(0), Known(24), Known(DefaultRecreateThreshold),
     Known(HugeRecreateThreshold)}
PlanRelationships ==
    {Null(NoRelationships), Unknown(NoRelationships), Known(NoRelationships),
     Known([pass_type_id |-> Known("PT1")])}

\* A plan for a new certificate: the configured attributes, every computed
\* attribute unknown.
PlanOf(type, key, pw, thr, rel) ==
    [present |-> TRUE,
     id |-> Unknown(""),
     certificate_type |-> Known(type),
     csr_content |-> Known("csrA"),
     private_key_pem |-> key,
     certificate_content |-> Unknown(EmptyText),
     certificate_content_pem |-> Unknown(NoPEM),
     certificate_ca_issuers |-> Unknown(<<>>),
     display_name |-> Unknown(""),
     name |-> Unknown(""),
     platform |-> Unknown(""),
     serial_number |-> Unknown(""),
     expiration_date |-> Unknown(NoTimestamp),
     recreate_threshold |-> thr,
     relationships |-> rel,
     pkcs12_bundle_password |-> pw,
     pkcs12_bundle_content |-> Unknown(NoBundle)]

\* The schema of part_024 has no PEM, CA issuers, private key or PKCS12
\* attributes; that of certificate_resource.go has no recreate_threshold
\* either.
InSchema(r, m) ==
    IF r = RevPKCS12 THEN m
    ELSE LET m1 == [m EXCEPT !.private_key_pem = NullStr,
                             !.certificate_content_pem = Null(NoPEM),
                             !.certificate_ca_issuers = Null(<<>>),
                             !.pkcs12_bundle_password = NullStr,
                             !.pkcs12_bundle_content = Null(NoBundle)]
         IN IF r = RevThreshold THEN m1
            ELSE [m1 EXCEPT !.recreate_threshold = Null(0)]

PassTypeOnePlan(key, pw, thr) ==
    PlanOf(CertificateTypePassTypeID, key, pw, thr, Known([pass_type_id |-> Known("PT1")]))

\* The plans of the lifecycle: a pass type certificate with every choice of
\* private key, with or without the bundle password "pw1" ("pw2" is only
\* ever configured by an update), with the threshold configured or not, and
\* a development certificate with no relationships.
CreatePlans(r) ==
    {InSchema(r, p) : p \in
        {PassTypeOnePlan(k, pw, Unknown(0)) : k \in PlanKeys, pw \in {NullStr, Known("pw1")}}
        \cup {PassTypeOnePlan(NullStr, NullStr, thr) :
                thr \in {Known(0), Known(HugeRecreateThreshold)}}
        \cup {PlanOf(CertificateTypeIOSDevelopment, NullStr, NullStr, Unknown(0),
                     Unknown(NoRelationships))}}

\* The plans Create is validated on: every certificate type with every shape
\* of the relationships attribute.
AllTypePlans(r) ==
    {InSchema(r, PlanOf(t, NullStr, NullStr, Unknown(0), rel)) :
        t \in CertificateTypes, rel \in PlanRelationships}

\* r.client.Do and json.Unmarshal of its Data come back with an error of the
\* call, with data that do not unmarshal, or with a Certificate: one
\* certificate, varied in its type, its content, its expiration and its pass
\* type relationship.
Certificates(types) ==
    LET one == [present |-> TRUE, id |-> "PT1"]
        home == CHOOSE t \in types : \A u \in types : t = u \/ u = CertificateTypeIOSDevelopment
    IN {RemoteCertificate(t, Base64Of("certA"), ExpiresAt(960, 2), one) : t \in types}
       \cup {RemoteCertificate(home, c, ExpiresAt(960, 2), one) : c \in RemoteContents}
       \cup {RemoteCertificate(home, Base64Of("certA"), e, one) : e \in RemoteExpirations}
       \cup {RemoteCertificate(home, Base64Of("certB"), ExpiresAt(240, 0), p) :
                p \in RemotePassTypeIds}

CallOutcomes(types) ==
    {[kind |-> "err", cert |-> EmptyCertificate],
     [kind |-> "baddata", cert |-> EmptyCertificate]}
    \cup {[kind |-> "ok", cert |-> c] : c \in Certificates(types)}

\* The type the service reports for a tracked certificate on Read.
ReadTypes(state) ==
    {IF state.certificate_type.v \in CertificateTypes
     THEN state.certificate_type.v ELSE CertificateTypePassTypeID,
     CertificateTypeIOSDevelopment}

\* A plan for a tracked certificate: the configured attributes as given, id
\* from state (UseStateForUnknown), every other computed attribute unknown.
UpdatePlanOf(state, type, csr, rel, key, pw, thr) ==
    [state EXCEPT !.certificate_type = type,
                  !.csr_content = csr,
                  !.relationships = rel,
                  !.private_key_pem = key,
                  !.pkcs12_bundle_password = pw,
                  !.recreate_threshold = thr,
                  !.certificate_content = Unknown(EmptyText),
                  !.certificate_content_pem = Unknown(NoPEM),
                  !.certificate_ca_issuers = Unknown(<<>>),
                  !.display_name = Unknown(""),
                  !.name = Unknown(""),
                  !.platform = Unknown(""),
                  !.serial_number = Unknown(""),
                  !.expiration_date = Unknown(NoTimestamp),
                  !.pkcs12_bundle_content = Unknown(NoBundle)]

UpdatePlans(r, s) ==
    {InSchema(r, p) : p \in
        {UpdatePlanOf(s, Known(t), s.csr_content, s.relationships,
                      s.private_key_pem, s.pkcs12_bundle_password, s.recreate_threshold) :
            t \in {CertificateTypePassTypeID, CertificateTypePassTypeIDWithNFC}}
        \cup {UpdatePlanOf(s, s.certificate_type, Known(c), s.relationships,
                      s.private_key_pem, s.pkcs12_bundle_password, s.recreate_threshold) :
            c \in {"csrA", "csrB"}}
        \cup {UpdatePlanOf(s, s.certificate_type, s.csr_content, rel,
                      s.private_key_pem, s.pkcs12_bundle_password, s.recreate_threshold) :
            rel \in {Unknown(NoRelationships),
                     Known([pass_type_id |-> Known("PT1")]),
                     Known([pass_type_id |-> Known("PT2")])}}
        \cup {UpdatePlanOf(s, s.certificate_type, s.csr_content, s.relationships,
                      k, pw, s.recreate_threshold) :
            k \in PlanKeys, pw \in PlanPasswords}
        \cup {UpdatePlanOf(s, s.certificate_type, s.csr_content, s.relationships,
                      s.private_key_pem, s.pkcs12_bundle_password, Known(0))}}

\* The plans a planning pass sees for a tracked certificate: its removal, or
\* the tracked record with the configured threshold.
PlanningPlans(r, s) ==
    {NullModel} \cup
    {InSchema(r, [s EXCEPT !.recreate_threshold = thr]) : thr \in PlanThresholds}

(***************************************************************************)
(* The state machine of the certificate resource.                          *)
(***************************************************************************)
NoOp ==
    [op |-> "none", plan |-> NullModel, errors |-> {},
     warnings |-> {}, calls |-> <<>>, requiresReplace |-> FALSE]

Done(op, plan, r) ==
    [op |-> op, plan |-> plan, errors |-> r.errors,
     warnings |-> r.warnings, calls |-> r.calls, requiresReplace |-> FALSE]

CertStart ==
    /\ nowHr = 0
    /\ tfState = NullModel
    /\ last = NoOp

CertInit == rev \in Revisions /\ CertStart

\* Time passes between two operations.
Advance ==
    /\ UNCHANGED outsideCert
    /\ nowHr + HourStep <= MaxHours
    /\ nowHr' = nowHr + HourStep
    /\ last' = NoOp
    /\ UNCHANGED <<rev, tfState>>

CreatePKCS12(plans) ==
    /\ UNCHANGED outsideCert
    /\ rev = RevPKCS12
    /\ ~tfState.present
    /\ \E plan \in plans :
       \E out \in CallOutcomes({plan.certificate_type.v}), salt \in Salts :
          LET r == Create023(plan, out, salt)
          IN /\ tfState' = r.state
             /\ last' = Done("Create", plan, r)
    /\ UNCHANGED <<rev, nowHr>>

CreateThreshold(plans) ==
    /\ UNCHANGED outsideCert
    /\ rev = RevThreshold
    /\ ~tfState.present
    /\ \E plan \in plans :
       \E out \in CallOutcomes({plan.certificate_type.v}) :
          LET r == Create024(plan, out)
          IN /\ tfState' = r.state
             /\ last' = Done("Create", plan, r)
    /\ UNCHANGED <<rev, nowHr>>

CreateBaseRev(plans) ==
    /\ UNCHANGED outsideCert
    /\ rev = RevBase
    /\ ~tfState.present
    /\ \E plan \in plans :
       \E out \in CallOutcomes({plan.certificate_type.v}) :
          LET r == CreateBase(plan, out)
          IN /\ tfState' = r.state
             /\ last' = Done("Create", plan, r)
    /\ UNCHANGED <<rev, nowHr>>

ReadOf(r, data, out) ==
    IF r = RevPKCS12 THEN Read023(data, out)
    ELSE IF r = RevThreshold THEN Read024(data, out)
    ELSE ReadBase(data, out)

Read ==
    /\ UNCHANGED outsideCert
    /\ tfState.present
    /\ \E out \in CallOutcomes(ReadTypes(tfState)) :
          LET r == ReadOf(rev, tfState, out)
          IN /\ tfState' = r.state
             /\ last' = Done("Read", NullModel, r)
    /\ UNCHANGED <<rev, nowHr>>

\* resource.ImportStatePassthroughID(ctx, path.Root("id"), req, resp): a state
\* with nothing but the id, which the framework then refreshes with Read; a
\* failed refresh imports nothing.
ImportState ==
    /\ UNCHANGED outsideCert
    /\ ~tfState.present
    /\ \E out \in CallOutcomes({CertificateTypePassTypeID, CertificateTypeIOSDevelopment}) :
          LET seed == [NullModel EXCEPT !.present = TRUE, !.id = Known("CERT1")]
              r == ReadOf(rev, seed, out)
          IN /\ tfState' = IF r.errors = {} THEN r.state ELSE NullModel
             /\ last' = Done("ImportState", NullModel, r)
    /\ UNCHANGED <<rev, nowHr>>

UpdatePKCS12 ==
    /\ UNCHANGED outsideCert
    /\ rev = RevPKCS12
    /\ tfState.present
    /\ \E plan \in UpdatePlans(rev, tfState), salt \in Salts :
          LET r == Update023(plan, tfState, salt)
          IN /\ tfState' = r.state
             /\ last' = Done("Update", plan, r)
    /\ UNCHANGED <<rev, nowHr>>

UpdateOther ==
    /\ UNCHANGED outsideCert
    /\ rev # RevPKCS12
    /\ tfState.present
    /\ \E plan \in UpdatePlans(rev, tfState) :
          LET r == UpdateRefused(plan, tfState)
          IN /\ tfState' = r.state
             /\ last' = Done("Update", plan, r)
    /\ UNCHANGED <<rev, nowHr>>

DeleteTracked ==
    /\ UNCHANGED outsideCert
    /\ rev # RevBase
    /\ tfState.present
    /\ LET r == DeleteLocal(tfState)
       IN /\ tfState' = r.state
          /\ last' = Done("Delete", NullModel, r)
    /\ UNCHANGED <<rev, nowHr>>

DeleteBaseRev ==
    /\ UNCHANGED outsideCert
    /\ rev = RevBase
    /\ tfState.present
    /\ \E out \in {[kind |-> "err", cert |-> EmptyCertificate],
                   [kind |-> "ok", cert |-> EmptyCertificate]} :
          LET r == DeleteRemote(tfState, out)
          IN /\ tfState' = r.state
             /\ last' = Done("Delete", NullModel, r)
    /\ UNCHANGED <<rev, nowHr>>

\* A planning pass that fetches the certificate and runs the plan modifier
\* of expiration_date on the expiration the service reports.
PlanRefetches ==
    /\ UNCHANGED outsideCert
    /\ rev # RevBase
    /\ \E plan \in (IF tfState.present THEN PlanningPlans(rev, tfState)
                    ELSE {InSchema(rev, PassTypeOnePlan(NullStr, NullStr, Unknown(0)))}) :
       \E out \in CallOutcomes(ReadTypes(tfState)) :
          /\ last' = [op |-> "Plan", plan |-> plan, errors |-> {},
                      warnings |-> {}, calls |-> <<GetCertificate>>,
                      requiresReplace |->
                          PlanModifyString(
                              IF out.kind = "ok"
                              THEN WithExpiration(tfState, out.cert) ELSE tfState,
                              plan, nowHr)]
    /\ UNCHANGED <<rev, nowHr, tfState>>
\* A planning pass: the plan modifier of expiration_date runs on the tracked
\* record and the planned one (part_023 and part_024; certificate_resource.go
\* has no plan modifier on expiration_date).
Plan ==
    /\ UNCHANGED outsideCert
    /\ rev # RevBase
    /\ \E plan \in (IF tfState.present THEN PlanningPlans(rev, tfState)
                    ELSE {InSchema(rev, PassTypeOnePlan(NullStr, NullStr, Unknown(0)))}) :
          /\ last' = [op |-> "Plan", plan |-> plan, errors |-> {},
                      warnings |-> {}, calls |-> <<>>,
                      requiresReplace |-> PlanModifyString(tfState, plan, nowHr)]
    /\ UNCHANGED <<rev, nowHr, tfState>>

\* The plan modifiers the schema lists for recreate_threshold, run in their
\* order, each on the planned value the one before it left.
\* int64planmodifier.UseStateForUnknown()
UseStateForUnknown(planValue, stateValue) ==
    IF IsNull(stateValue) THEN planValue
    ELSE IF ~IsUnknown(planValue) THEN planValue
    ELSE stateValue

\* int64planmodifier.RequiresReplace(): on a resource that is neither created
\* nor destroyed, a planned value other than the state's.
RequiresReplace(planValue, stateValue) == planValue # stateValue

\* RecreateThresholdDefaultPlanModifier.PlanModifyInt64
PlanModifyInt64(configValue, planValue) ==
    IF IsNull(configValue) THEN Known(DefaultRecreateThreshold) ELSE planValue

\* The planned recreate_threshold before the plan modifiers: the configured
\* value, or for a null configuration the value of the state, made unknown
\* when the plan differs from the state elsewhere.
ProposedThresholds(configValue, stateValue) ==
    IF IsNull(configValue) THEN {stateValue, Unknown(0)} ELSE {configValue}

\* recreate_threshold in the schema of part_023: UseStateForUnknown,
\* RequiresReplace, NewRecreateThresholdDefaultPlanModifier.
PlanThreshold023(configValue, proposed, stateValue) ==
    LET p1 == UseStateForUnknown(proposed, stateValue)
    IN [planValue |-> PlanModifyInt64(configValue, p1),
        requiresReplace |-> RequiresReplace(p1, stateValue)]

\* recreate_threshold in the schema of part_024: UseStateForUnknown.
PlanThreshold024(configValue, proposed, stateValue) ==
    [planValue |-> UseStateForUnknown(proposed, stateValue),
     requiresReplace |-> FALSE]

ConfiguredThresholds ==
    {Null(0), Known(0), Known(DefaultRecreateThreshold), Known(HugeRecreateThreshold)}

\* A planning pass over a tracked certificate: the plan modifiers of
\* recreate_threshold run on the configured value.
PlanThreshold ==
    /\ UNCHANGED outsideCert
    /\ rev # RevBase
    /\ tfState.present
    /\ \E configValue \in ConfiguredThresholds :
       \E proposed \in ProposedThresholds(configValue, tfState.recreate_threshold) :
          LET r == IF rev = RevPKCS12
                   THEN PlanThreshold023(configValue, proposed,
                                         tfState.recreate_threshold)
                   ELSE PlanThreshold024(configValue, proposed,
                                         tfState.recreate_threshold)
          IN last' = [op |-> "PlanThreshold",
                      plan |-> [tfState EXCEPT !.recreate_threshold = r.planValue],
                      errors |-> {}, warnings |-> {}, calls |-> <<>>,
                      requiresReplace |-> r.requiresReplace]
    /\ UNCHANGED <<rev, nowHr, tfState>>

CertNext ==
    \/ Advance
    \/ CreatePKCS12(CreatePlans(rev))
    \/ CreateThreshold(CreatePlans(rev))
    \/ CreateBaseRev(CreatePlans(rev))
    \/ Read
    \/ ImportState
    \/ UpdatePKCS12
    \/ UpdateOther
    \/ DeleteTracked
    \/ DeleteBaseRev
    \/ Plan
    \/ PlanThreshold

(***************************************************************************)
(* The data sources: appleappstoreconnect_certificate and                  *)
(* appleappstoreconnect_pass_type_id.  A Read looks one record up, by id   *)
(* or by filter, and sets the data source's state.                         *)
(***************************************************************************)
\* Response.Data is a json.RawMessage: the "data" member of the body as it
\* came, an array for a list endpoint, an object for a single resource, or
\* nothing when the body had no such member.  A service that does not keep
\* to the JSON:API layout may also nest an envelope, an object with a "data"
\* member of its own, in it.
JAbsent == [shape |-> "absent", items |-> <<>>, inner |-> ""]
JArray(items) == [shape |-> "array", items |-> items, inner |-> ""]
JObject(item) == [shape |-> "object", items |-> <<item>>, inner |-> ""]
JEnvelope(raw) == [shape |-> "envelope", items |-> raw.items, inner |-> raw.shape]

\* json.Unmarshal(apiResp.Data, &certsResp), certsResp a CertificatesResponse:
\* a struct is decoded from an object only.  A resource object has no "data"
\* member, so the struct's Data stays nil; the "data" member of an envelope
\* is decoded into Data when it is an array.
UnmarshalAsCertificatesResponse(raw) ==
    IF raw.shape = "object" \/ (raw.shape = "envelope" /\ raw.inner = "absent")
    THEN [err |-> FALSE, data |-> <<>>]
    ELSE IF raw.shape = "envelope" /\ raw.inner = "array"
    THEN [err |-> FALSE, data |-> raw.items]
    ELSE [err |-> TRUE, data |-> <<>>]

\* json.Unmarshal(apiResp.Data, &certResp), certResp a CertificateResponse.
UnmarshalDataAsCertificateResponse(raw) ==
    IF raw.shape = "object" \/ (raw.shape = "envelope" /\ raw.inner = "absent")
    THEN [err |-> FALSE, data |-> EmptyCertificate]
    ELSE IF raw.shape = "envelope" /\ raw.inner = "object"
    THEN [err |-> FALSE, data |-> raw.items[1]]
    ELSE [err |-> TRUE, data |-> EmptyCertificate]

\* json.Unmarshal(apiResp.Data, &passTypeIDs), passTypeIDs a []PassTypeID.
UnmarshalAsPassTypeIDs(raw) ==
    IF raw.shape = "array"
    THEN [err |-> FALSE, data |-> raw.items]
    ELSE [err |-> TRUE, data |-> <<>>]

EmptyPassTypeID ==
    [id |-> "", identifier |-> "", name |-> "", createdDate |-> NoExpiration]

\* json.Unmarshal(apiResp.Data, &passTypeID), passTypeID a PassTypeID.
UnmarshalAsPassTypeID(raw) ==
    IF raw.shape = "object"
    THEN [err |-> FALSE, data |-> raw.items[1]]
    ELSE IF raw.shape = "envelope"
    THEN [err |-> FALSE, data |-> EmptyPassTypeID]
    ELSE [err |-> TRUE, data |-> EmptyPassTypeID]

\* CertificateDataSourceModel and PassTypeIDDataSourceModel, without the
\* configuration (id, filter), which ds keeps apart.
NullCertificateData ==
    [id |-> NullStr,
     certificate_type |-> NullStr,
     certificate_content |-> Null(EmptyText),
     certificate_content_pem |-> Null(NoPEM),
     certificate_extensions |-> NullStr,
     display_name |-> NullStr,
     name |-> NullStr,
     platform |-> NullStr,
     serial_number |-> NullStr,
     expiration_date |-> Null(NoTimestamp),
     relationships |-> Null(NoRelationships)]

NullPassTypeIDData ==
    [id |-> NullStr, identifier |-> NullStr, description |-> NullStr,
     created_date |-> Null(NoTimestamp)]

\* extractCertificateExtensions: the extensions of the certificate, a map
\* that goes with the certificate bytes; an error on malformed base64 or on
\* bytes that are no certificate.
extractCertificateExtensions(base64DER) ==
    IF ~base64DER.valid \/ ~IsCertificate(base64DER.bytes)
    THEN [err |-> TRUE, extensions |-> ""]
    ELSE [err |-> FALSE, extensions |-> base64DER.bytes]

\* CertificateDataSource.updateModel: the model as far as it got, and the
\* diagnostics it added.
updateModelCertificate(model, cert) ==
    LET content == cert.certificateContent
        m1 == [model EXCEPT
                 !.id = Known(cert.id),
                 !.certificate_type = Known(cert.certificateType),
                 !.certificate_content = Known(content),
                 !.display_name = Known(cert.displayName),
                 !.name = Known(cert.name),
                 !.platform = Known(cert.platform),
                 !.serial_number = Known(cert.serialNumber)]
        pem == convertDERToPEM(content)
        ext == extractCertificateExtensions(content)
        m2 == [m1 EXCEPT
                 !.certificate_content_pem =
                     IF content # EmptyText THEN Known(pem.pem) ELSE Null(NoPEM)]
        m3 == [m2 EXCEPT
                 !.certificate_extensions =
                     IF content # EmptyText THEN Known(ext.extensions) ELSE NullStr]
        m4 == IF cert.expirationDate.present
              THEN [m3 EXCEPT !.expiration_date =
                                  Known(FormatExpiration(cert.expirationDate))]
              ELSE m3
        m5 == [m4 EXCEPT
                 !.relationships =
                     IF cert.passTypeId.present
                     THEN Known([pass_type_id |-> Known(cert.passTypeId.id)])
                     ELSE Known(NoRelationships)]
    IN IF content # EmptyText /\ pem.err
       THEN [model |-> m1, errors |-> {"Certificate Conversion Error"}]
       ELSE IF content # EmptyText /\ ext.err
       THEN [model |-> m2, errors |-> {"Certificate Extension Parsing Error"}]
       ELSE [model |-> m5, errors |-> {}]

\* PassTypeIDDataSource.updateModel
updateModelPassTypeID(model, passTypeID) ==
    [model EXCEPT
       !.id = Known(passTypeID.id),
       !.identifier = Known(passTypeID.identifier),
       !.description = Known(passTypeID.name),
       !.created_date =
           IF passTypeID.createdDate.present
           THEN Known(FormatExpiration(passTypeID.createdDate))
           ELSE Null(NoTimestamp)]

\* The configuration of a data source: an id or a filter (ExactlyOneOf).
NoFilter ==
    [present |-> FALSE, certificate_type |-> NullStr, serial_number |-> NullStr,
     identifier |-> NullStr]
ConfigByID(id) == [id |-> Known(id), filter |-> NoFilter]
CertificateFilter(type, serial) ==
    [id |-> NullStr,
     filter |-> [present |-> TRUE, certificate_type |-> type,
                 serial_number |-> serial, identifier |-> NullStr]]
PassTypeIDFilter(identifier) ==
    [id |-> NullStr,
     filter |-> [present |-> TRUE, certificate_type |-> NullStr,
                 serial_number |-> NullStr, identifier |-> Known(identifier)]]

\* What a Read of a data source yields: diagnostics, whether resp.State.Set
\* ran, the model it was given, and the remote calls.
DataResult(errs, set, model, calls) ==
    [errors |-> errs, stateSet |-> set, model |-> model, calls |-> calls]

ListCertificates == [method |-> "GET", endpoint |-> "/certificates"]
GetPassTypeID == [method |-> "GET", endpoint |-> "/passTypeIds/{id}"]
ListPassTypeIDs == [method |-> "GET", endpoint |-> "/passTypeIds"]

\* The filter branch of CertificateDataSource.Read from the parsed list on.
MatchingCerts(filter, certs) ==
    IF ~IsNull(filter.serial_number)
    THEN LET Same(cert) == cert.serialNumber = filter.serial_number.v
         IN SelectSeq(certs, Same)
    ELSE certs

\* CertificateDataSource.Read; out is what Client.Do returned.
CertificateDataSourceRead(config, out) ==
    IF ~IsNull(config.id)
    THEN IF out.kind = "err"
         THEN DataResult({"Client Error"}, FALSE, NullCertificateData, <<GetCertificate>>)
         ELSE LET certResp == UnmarshalDataAsCertificateResponse(out.data)
                  u == updateModelCertificate(NullCertificateData, certResp.data)
              IN IF certResp.err
                 THEN DataResult({"Parse Error"}, FALSE, NullCertificateData,
                                 <<GetCertificate>>)
                 ELSE DataResult(u.errors, TRUE, u.model, <<GetCertificate>>)
    ELSE IF config.filter.present
    THEN IF out.kind = "err"
         THEN DataResult({"Client Error"}, FALSE, NullCertificateData, <<ListCertificates>>)
         ELSE LET parsed == UnmarshalAsCertificatesResponse(out.data)
                  matchingCerts == MatchingCerts(config.filter, parsed.data)
              IN IF parsed.err
                 THEN DataResult({"Parse Error"}, FALSE, NullCertificateData,
                                 <<ListCertificates>>)
                 ELSE IF Len(matchingCerts) = 0
                 THEN DataResult({"Not Found"}, FALSE, NullCertificateData,
                                 <<ListCertificates>>)
                 ELSE IF Len(matchingCerts) > 1
                 THEN DataResult({"Multiple Results"}, FALSE, NullCertificateData,
                                 <<ListCertificates>>)
                 ELSE LET u == updateModelCertificate(NullCertificateData,
                                                      matchingCerts[1])
                      IN DataResult(u.errors, TRUE, u.model, <<ListCertificates>>)
    ELSE DataResult({}, TRUE, NullCertificateData, <<>>)

\* PassTypeIDDataSource.Read; out is what Client.Do returned.
PassTypeIDDataSourceRead(config, out) ==
    IF ~IsNull(config.id)
    THEN IF out.kind = "err"
         THEN DataResult({"Client Error"}, FALSE, NullPassTypeIDData, <<GetPassTypeID>>)
         ELSE LET parsed == UnmarshalAsPassTypeID(out.data)
              IN IF parsed.err
                 THEN DataResult({"Parse Error"}, FALSE, NullPassTypeIDData,
                                 <<GetPassTypeID>>)
                 ELSE DataResult({}, TRUE,
                                 updateModelPassTypeID(NullPassTypeIDData, parsed.data),
                                 <<GetPassTypeID>>)
    ELSE IF config.filter.present
    THEN IF out.kind = "err"
         THEN DataResult({"Client Error"}, FALSE, NullPassTypeIDData, <<ListPassTypeIDs>>)
         ELSE LET parsed == UnmarshalAsPassTypeIDs(out.data)
              IN IF parsed.err
                 THEN DataResult({"Parse Error"}, FALSE, NullPassTypeIDData,
                                 <<ListPassTypeIDs>>)
                 ELSE IF Len(parsed.data) = 0
                 THEN DataResult({"Not Found"}, FALSE, NullPassTypeIDData,
                                 <<ListPassTypeIDs>>)
                 ELSE IF Len(parsed.data) > 1
                 THEN DataResult({"Multiple Results"}, FALSE, NullPassTypeIDData,
                                 <<ListPassTypeIDs>>)
                 ELSE DataResult({}, TRUE,
                                 updateModelPassTypeID(NullPassTypeIDData, parsed.data[1]),
                                 <<ListPassTypeIDs>>)
    ELSE DataResult({}, TRUE, NullPassTypeIDData, <<>>)

\* json.Unmarshal(apiResp.Data, &certificates), certificates a []Certificate.
UnmarshalAsCertificates(raw) ==
    IF raw.shape = "array"
    THEN [err |-> FALSE, data |-> raw.items]
    ELSE [err |-> TRUE, data |-> <<>>]

\* The configuration of the certificates data source: an optional filter
\* with an optional certificate_type and an optional display_name.  A
\* display name is a sequence of characters.
NoListFilter ==
    [present |-> FALSE, certificate_type |-> NullStr, display_name |-> Null(<<>>)]
ListFilter(type, displayName) ==
    [present |-> TRUE, certificate_type |-> type, display_name |-> displayName]

\* query["limit"] = "200"
ListLimit == 200

\* The request of CertificatesDataSource.Read: limit, and
\* filter[certificateType] when the filter names a type.
ListCertificatesQuery(filter) ==
    [method |-> "GET", endpoint |-> "/certificates", limit |-> ListLimit,
     certificateType |-> IF filter.present THEN filter.certificate_type
                         ELSE NullStr]

\* The "Simple substring match" loop of CertificatesDataSource.Read.
ContainsDisplayNamePrefixOnly(displayName, displayNameFilter) ==
    /\ displayName # <<>>
    /\ Len(displayName) >= Len(displayNameFilter)
    /\ SubSeq(displayName, 1, Len(displayNameFilter)) = displayNameFilter

ContainsDisplayName(displayName, displayNameFilter) ==
    /\ displayName # <<>>
    /\ Len(displayName) >= Len(displayNameFilter)
    /\ \E i \in 0..(Len(displayName) - Len(displayNameFilter)) :
          SubSeq(displayName, i + 1, i + Len(displayNameFilter)) = displayNameFilter

\* "Apply client-side filtering if needed"
FilteredCerts(filter, certificates) ==
    IF filter.present
    THEN LET Keep(cert) ==
                 \/ IsNull(filter.display_name)
                 \/ filter.display_name.v = <<>>
                 \/ ContainsDisplayName(cert.displayName, filter.display_name.v)
         IN SelectSeq(certificates, Keep)
    ELSE certificates

\* "Convert certificates to list items": a CertificateListItemModel.
CertificateListItem(cert) ==
    [id |-> Known(cert.id),
     certificate_type |-> Known(cert.certificateType),
     certificate_content |-> Known(cert.certificateContent),
     display_name |-> Known(cert.displayName),
     name |-> Known(cert.name),
     platform |-> Known(cert.platform),
     serial_number |-> Known(cert.serialNumber),
     expiration_date |-> IF cert.expirationDate.present
                         THEN Known(FormatExpiration(cert.expirationDate))
                         ELSE Null(NoTimestamp),
     relationships |-> IF cert.passTypeId.present
                       THEN Known([pass_type_id |-> Known(cert.passTypeId.id)])
                       ELSE Known(NoRelationships)]

\* CertificatesDataSource.Read; out is what Client.Do returned.  items is
\* the certificates list handed to resp.State.Set.
CertificatesDataSourceRead(filter, out) ==
    LET calls == <<ListCertificatesQuery(filter)>>
        parsed == UnmarshalAsCertificates(out.data)
        filteredCerts == FilteredCerts(filter, parsed.data)
    IN IF out.kind = "err"
       THEN [errors |-> {"Client Error"}, stateSet |-> FALSE, items |-> <<>>,
             calls |-> calls]
       ELSE IF parsed.err
       THEN [errors |-> {"Parse Error"}, stateSet |-> FALSE, items |-> <<>>,
             calls |-> calls]
       ELSE [errors |-> {}, stateSet |-> TRUE,
             items |-> [i \in 1..Len(filteredCerts) |->
                           CertificateListItem(filteredCerts[i])],
             calls |-> calls]

(***************************************************************************)
(* The state machine of the data sources.  Every Read meets an account     *)
(* with some records in it; the service answers a lookup by id with that   *)
(* record and a list request with the records its own filter lets through. *)
(***************************************************************************)
\* The most records an account holds.
MaxListed == 2

CertificateIds == <<"CERT1", "CERT2", "CERT3", "CERT4">>
PassTypeIDIds == <<"PT1", "PT2", "PT3", "PT4">>

ListedCertificateKinds ==
    {<<CertificateTypePassTypeID, Base64Of("certA")>>,
     <<CertificateTypePassTypeID, Base64Of("certB")>>,
     <<CertificateTypeIOSDevelopment, Base64Of("certA")>>,
     <<CertificateTypePassTypeID, Base64Of("junk")>>}

ListedCertificate(i, kind) ==
    [RemoteCertificate(kind[1], kind[2], ExpiresAt(240, 0),
                       IF kind[1] = CertificateTypePassTypeID
                       THEN [present |-> TRUE, id |-> "PT1"] ELSE NoPassTypeId)
       EXCEPT !.id = CertificateIds[i]]

CertificateAccounts ==
    UNION {{[i \in 1..n |-> ListedCertificate(i, kinds[i])] :
               kinds \in [1..n -> ListedCertificateKinds]} : n \in 0..MaxListed}

PassIdentifiers == {"pass.a", "pass.b"}

ListedPassTypeID(i, identifier) ==
    [id |-> PassTypeIDIds[i], identifier |-> identifier, name |-> "Pass",
     createdDate |-> IF identifier = "pass.a" THEN ExpiresAt(240, 0) ELSE NoExpiration]

PassTypeIDAccounts ==
    UNION {{[i \in 1..n |-> ListedPassTypeID(i, identifiers[i])] :
               identifiers \in [1..n -> PassIdentifiers]} : n \in 0..MaxListed}

CertificateConfigs ==
    {ConfigByID(CertificateIds[i]) : i \in 1..MaxListed} \cup
    {CertificateFilter(type, serial) :
        type \in {NullStr, Known(CertificateTypePassTypeID),
                  Known(CertificateTypeIOSDevelopment)},
        serial \in {NullStr, Known("SN-A"), Known("SN-B")}}

PassTypeIDConfigs ==
    {ConfigByID(PassTypeIDIds[i]) : i \in 1..MaxListed} \cup
    {PassTypeIDFilter(identifier) : identifier \in PassIdentifiers \cup {"pass.c"}}

\* The answer of the service, as Client.Do returns it: an error (also for an
\* id the account does not hold), or the data member of the body.
WithId(account, id) ==
    LET Same(rec) == rec.id = id IN SelectSeq(account, Same)

\* layout: "resource" for the JSON:API layout, "envelope" for a nested one.
Layouts == {"resource", "envelope"}
InLayout(layout, raw) == IF layout = "envelope" THEN JEnvelope(raw) ELSE raw

AnswerById(account, id, fails, layout) ==
    IF fails \/ Len(WithId(account, id)) = 0
    THEN [kind |-> "err", data |-> JAbsent]
    ELSE [kind |-> "ok", data |-> InLayout(layout, JObject(WithId(account, id)[1]))]

\* GET /certificates?filter[certificateType]=...
CertificatesOfType(account, type) ==
    IF IsNull(type) THEN account
    ELSE LET Same(cert) == cert.certificateType = type.v
         IN SelectSeq(account, Same)

\* GET /passTypeIds?filter[identifier]=...
PassTypeIDsNamed(account, identifier) ==
    LET Same(p) == p.identifier = identifier.v IN SelectSeq(account, Same)

CertificateAnswer(account, config, fails, layout) ==
    IF ~IsNull(config.id) THEN AnswerById(account, config.id.v, fails, layout)
    ELSE IF fails THEN [kind |-> "err", data |-> JAbsent]
    ELSE [kind |-> "ok",
          data |-> InLayout(layout,
                       JArray(CertificatesOfType(account,
                                                 config.filter.certificate_type)))]

PassTypeIDAnswer(account, config, fails, layout) ==
    IF ~IsNull(config.id) THEN AnswerById(account, config.id.v, fails, layout)
    ELSE IF fails THEN [kind |-> "err", data |-> JAbsent]
    ELSE [kind |-> "ok",
          data |-> InLayout(layout,
                       JArray(PassTypeIDsNamed(account, config.filter.identifier)))]

NoDataRead ==
    [source |-> "none", config |-> [id |-> NullStr, filter |-> NoFilter],
     certificates |-> <<>>, passTypeIds |-> <<>>, failed |-> FALSE,
     layout |-> "resource",
     errors |-> {}, stateSet |-> FALSE, calls |-> <<>>,
     certificate |-> NullCertificateData, passTypeId |-> NullPassTypeIDData,
     listFilter |-> NoListFilter, listing |-> <<>>, items |-> <<>>]

DataStart == ds = NoDataRead

ReadCertificateDataSource ==
    /\ UNCHANGED outsideData
    /\ \E account \in CertificateAccounts, config \in CertificateConfigs,
          fails \in BOOLEAN, layout \in Layouts :
          LET out == CertificateAnswer(account, config, fails, layout)
              r == CertificateDataSourceRead(config, out)
          IN ds' = [NoDataRead EXCEPT
                      !.source = "certificate", !.config = config,
                      !.certificates = account, !.failed = out.kind = "err",
                      !.layout = IF out.kind = "err" THEN "resource" ELSE layout,
                      !.errors = r.errors, !.stateSet = r.stateSet,
                      !.calls = r.calls, !.certificate = r.model]

ReadPassTypeIDDataSource ==
    /\ UNCHANGED outsideData
    /\ \E account \in PassTypeIDAccounts, config \in PassTypeIDConfigs,
          fails \in BOOLEAN, layout \in Layouts :
          LET out == PassTypeIDAnswer(account, config, fails, layout)
              r == PassTypeIDDataSourceRead(config, out)
          IN ds' = [NoDataRead EXCEPT
                      !.source = "pass_type_id", !.config = config,
                      !.passTypeIds = account, !.failed = out.kind = "err",
                      !.layout = IF out.kind = "err" THEN "resource" ELSE layout,
                      !.errors = r.errors, !.stateSet = r.stateSet,
                      !.calls = r.calls, !.passTypeId = r.model]

\* The certificates a list request meets: type, display name, expiration.
ListingKinds ==
    {<<CertificateTypePassTypeID, <<"a">>, ExpiresAt(240, 0)>>,
     <<CertificateTypePassTypeID, <<"b", "a">>, NoExpiration>>,
     <<CertificateTypeIOSDevelopment, <<"a", "b">>, ExpiresAt(960, 2)>>,
     <<CertificateTypeIOSDevelopment, <<>>, ExpiresAt(240, 0)>>}

ListingCertificate(i, kind) ==
    [RemoteCertificate(kind[1], Base64Of("certA"), kind[3],
                       IF kind[1] = CertificateTypePassTypeID
                       THEN [present |-> TRUE, id |-> "PT1"] ELSE NoPassTypeId)
       EXCEPT !.id = CertificateIds[i], !.displayName = kind[2]]

ListingAccounts ==
    UNION {{[i \in 1..n |-> ListingCertificate(i, kinds[i])] :
               kinds \in [1..n -> ListingKinds]} : n \in 0..MaxListed}

ListConfigs ==
    {NoListFilter} \cup
    {ListFilter(type, name) :
        type \in {NullStr, Known(CertificateTypePassTypeID)},
        name \in {Null(<<>>), Known(<<>>), Known(<<"a">>), Known(<<"a", "b">>)}}

\* GET /certificates?limit=200&filter[certificateType]=...
ListingAnswer(account, call, fails, layout) ==
    IF fails THEN [kind |-> "err", data |-> JAbsent]
    ELSE [kind |-> "ok",
          data |-> InLayout(layout,
                       JArray(CertificatesOfType(account, call.certificateType)))]

ReadCertificatesDataSource ==
    /\ UNCHANGED outsideData
    /\ \E account \in ListingAccounts, filter \in ListConfigs,
          fails \in BOOLEAN, layout \in Layouts :
          LET out == ListingAnswer(account, ListCertificatesQuery(filter),
                                   fails, layout)
              r == CertificatesDataSourceRead(filter, out)
          IN ds' = [NoDataRead EXCEPT
                      !.source = "certificates", !.listFilter = filter,
                      !.listing = account, !.failed = out.kind = "err",
                      !.layout = IF out.kind = "err" THEN "resource" ELSE layout,
                      !.errors = r.errors, !.stateSet = r.stateSet,
                      !.calls = r.calls, !.items = r.items]

DataNext ==
    \/ ReadCertificateDataSource
    \/ ReadPassTypeIDDataSource
    \/ ReadCertificatesDataSource

(***************************************************************************)
(* Client.Do.  The request is built, getToken is called, the request is    *)
(* handed to c.httpClient.Do, and the response is turned into the result.  *)
(***************************************************************************)
\* The longest errors array of a response body.
MaxErrors == 2

\* The goroutines that call Client.Do.
DoCallers == {1}

\* Entries of the errors array (Error: Title, Detail).
ErrorEntries ==
    {[title |-> "NOT_FOUND", detail |-> "There is no resource"],
     [title |-> "FORBIDDEN", detail |-> ""]}

ErrorArrays == UNION {[1..n -> ErrorEntries] : n \in 0..MaxErrors}

\* The body of a response: no bytes, bytes json.Unmarshal rejects, or a
\* document with its data member and its errors array.
EmptyBody == [kind |-> "empty", data |-> JAbsent, errors |-> <<>>]
UnparsableBody == [kind |-> "unparsable", data |-> JAbsent, errors |-> <<>>]
Document(data, errors) == [kind |-> "document", data |-> data, errors |-> errors]

Bodies ==
    {EmptyBody, UnparsableBody} \cup
    {Document(data, errors) :
        data \in {JAbsent, JObject(EmptyCertificate)}, errors \in ErrorArrays}

StatusCodes == {200, 302, 404}

\* What c.httpClient.Do and io.ReadAll give: a transport error, a response
\* whose body cannot be read, or a response.
NoOutcome == [kind |-> "none", status |-> 0, body |-> EmptyBody]
Outcomes ==
    {[kind |-> "transport error", status |-> 0, body |-> EmptyBody]} \cup
    {[kind |-> "read error", status |-> s, body |-> EmptyBody] : s \in StatusCodes} \cup
    {[kind |-> "response", status |-> s, body |-> b] : s \in StatusCodes, b \in Bodies}

\* (*Response, error): the error's message in pieces, and the status code
\* it was formatted with (0: none).
NoReturn == [ok |-> FALSE, data |-> JAbsent, message |-> <<>>, status |-> 0]
Success(data) == [ok |-> TRUE, data |-> data, message |-> <<>>, status |-> 0]
Failure(message, status) ==
    [ok |-> FALSE, data |-> JAbsent, message |-> message, status |-> status]

\* The loop that builds errMsg, reporting the first entry only.
ErrMsgFirstOnly(errors) ==
    IF errors = <<>> THEN <<>>
    ELSE <<errors[1].title, ": ", errors[1].detail>>
\* The loop that builds errMsg: "title: detail" of each entry, joined by "; ".
ErrMsg(errors) ==
    LET errMsg[i \in 0..Len(errors)] ==
            IF i = 0 THEN <<>>
            ELSE errMsg[i - 1]
                     \o (IF i > 1 THEN <<"; ">> ELSE <<>>)
                     \o <<errors[i].title, ": ", errors[i].detail>>
    IN errMsg[Len(errors)]

\* Client.Do from the return of c.httpClient.Do on, without the final
\* "Check HTTP status".
ResultOfNoStatusCheck(out) ==
    IF out.kind = "transport error"
    THEN Failure(<<"failed to perform request">>, 0)
    ELSE IF out.kind = "read error"
    THEN Failure(<<"failed to read response body">>, 0)
    ELSE IF out.body.kind = "empty"
    THEN IF out.status >= 200 /\ out.status < 300
         THEN Success(JAbsent)
         ELSE Failure(<<"API error (status ", "%d", "): empty response">>, out.status)
    ELSE IF out.body.kind = "unparsable"
    THEN IF out.status >= 400
         THEN Failure(<<"API error (status ", "%d", "): ", "%s">>, out.status)
         ELSE Failure(<<"failed to parse response">>, 0)
    ELSE IF Len(out.body.errors) > 0
    THEN Failure(<<"API error: ">> \o ErrMsg(out.body.errors), 0)
    ELSE Success(out.body.data)
\* Client.Do from the return of c.httpClient.Do on.
ResultOf(out) ==
    IF out.kind = "transport error"
    THEN Failure(<<"failed to perform request">>, 0)
    ELSE IF out.kind = "read error"
    THEN Failure(<<"failed to read response body">>, 0)
    ELSE IF out.body.kind = "empty"
    THEN IF out.status >= 200 /\ out.status < 300
         THEN Success(JAbsent)
         ELSE Failure(<<"API error (status ", "%d", "): empty response">>, out.status)
    ELSE IF out.body.kind = "unparsable"
    THEN IF out.status >= 400
         THEN Failure(<<"API error (status ", "%d", "): ", "%s">>, out.status)
         ELSE Failure(<<"failed to parse response">>, 0)
    ELSE IF Len(out.body.errors) > 0
    THEN Failure(<<"API error: ">> \o ErrMsg(out.body.errors), 0)
    ELSE IF out.status >= 400
    THEN Failure(<<"API error: HTTP ", "%d">>, out.status)
    ELSE Success(out.body.data)

DoStart ==
    /\ doPc = [c \in Callers |-> "idle"]
    /\ attempts = [c \in Callers |-> 0]
    /\ httpOut = [c \in Callers |-> NoOutcome]
    /\ doRet = [c \in Callers |-> NoReturn]

\* A goroutine enters Client.Do.  A body json.Marshal rejects or a request
\* http.NewRequestWithContext rejects ends the call at once; otherwise the
\* call goes on into getToken.
DoCall(c) ==
    /\ UNCHANGED outsideClient
    /\ doPc[c] \in {"idle", "done"}
    /\ pc[c] \in {"idle", "done"}
    /\ Len(issued) < MaxTokens
    /\ attempts' = [attempts EXCEPT ![c] = 0]
    /\ httpOut' = [httpOut EXCEPT ![c] = NoOutcome]
    /\ \E req \in {"ok", "body not marshalable", "request not creatable"} :
          IF req = "ok"
          THEN /\ EnterGetToken(c)
               /\ doPc' = [doPc EXCEPT ![c] = "token"]
               /\ doRet' = [doRet EXCEPT ![c] = NoReturn]
          ELSE /\ doPc' = [doPc EXCEPT ![c] = "done"]
               /\ doRet' = [doRet EXCEPT ![c] =
                               IF req = "body not marshalable"
                               THEN Failure(<<"failed to marshal request body">>, 0)
                               ELSE Failure(<<"failed to create request">>, 0)]
               /\ UNCHANGED tokenVars

\* token, err := c.getToken() has returned, the error is sent on as it is.
DoGotTokenIgnoresError(c) ==
    /\ UNCHANGED outsideClient
    /\ doPc[c] = "token"
    /\ pc[c] = "done"
    /\ doPc' = [doPc EXCEPT ![c] = "send"]
    /\ UNCHANGED <<attempts, httpOut, doRet>>
    /\ UNCHANGED tokenVars
\* token, err := c.getToken() has returned.
DoGotToken(c) ==
    /\ UNCHANGED outsideClient
    /\ doPc[c] = "token"
    /\ pc[c] = "done"
    /\ IF retErr[c]
       THEN /\ doPc' = [doPc EXCEPT ![c] = "done"]
            /\ doRet' = [doRet EXCEPT ![c] =
                            Failure(<<"failed to get authentication token">>, 0)]
       ELSE /\ doPc' = [doPc EXCEPT ![c] = "send"]
            /\ UNCHANGED doRet
    /\ UNCHANGED <<attempts, httpOut>>
    /\ UNCHANGED tokenVars

\* c.httpClient.Do(httpReq), tried once more after a transport error.
DoSendRetries(c) ==
    /\ UNCHANGED outsideClient
    /\ doPc[c] = "send"
    /\ attempts' = [attempts EXCEPT ![c] = @ + 1]
    /\ \E out \in Outcomes :
          /\ httpOut' = [httpOut EXCEPT ![c] = out]
          /\ IF out.kind = "transport error" /\ attempts[c] = 0
             THEN UNCHANGED <<doPc, doRet>>
             ELSE /\ doRet' = [doRet EXCEPT ![c] = ResultOf(out)]
                  /\ doPc' = [doPc EXCEPT ![c] = "done"]
    /\ UNCHANGED tokenVars
\* c.httpClient.Do(httpReq), and all that follows it up to the return.
DoSend(c) ==
    /\ UNCHANGED outsideClient
    /\ doPc[c] = "send"
    /\ attempts' = [attempts EXCEPT ![c] = @ + 1]
    /\ \E out \in Outcomes :
          /\ httpOut' = [httpOut EXCEPT ![c] = out]
          /\ doRet' = [doRet EXCEPT ![c] = ResultOf(out)]
    /\ doPc' = [doPc EXCEPT ![c] = "done"]
    /\ UNCHANGED tokenVars

\* The steps of getToken inside a call of Client.Do.
InGetToken(c) ==
    /\ doPc[c] = "token"
    /\ \/ RLock(c)
       \/ FastCheck(c)
       \/ FastReturn(c)
       \/ RUnlockMiss(c)
       \/ Lock(c)
       \/ LockAcquired(c)
       \/ DoubleCheck(c)
       \/ generateToken(c)
       \/ Store(c)
       \/ UnlockReturn(c)

DoNext ==
    \/ Tick
    \/ \E c \in DoCallers : DoCall(c)
    \/ \E c \in DoCallers : InGetToken(c)
    \/ \E c \in DoCallers : DoGotToken(c)
    \/ \E c \in DoCallers : DoSend(c)

(***************************************************************************)
(* NewClient(issuerID, keyID, privateKeyPEM).                              *)
(***************************************************************************)
\* A private key text: "" (empty), a text pem.Decode finds no block in, or a
\* PEM block with its type and what its bytes are: a PKCS8 structure of an
\* ECDSA, RSA or Ed25519 key, or bytes x509.ParsePKCS8PrivateKey rejects.
EmptyKeyText == [text |-> "", type |-> "", bytes |-> ""]
NoPEMKeyText == [text |-> "invalid-key", type |-> "", bytes |-> ""]
PEMKey(type, bytes) == [text |-> "pem", type |-> type, bytes |-> bytes]

PrivateKeyTexts ==
    {EmptyKeyText, NoPEMKeyText,
     PEMKey("PRIVATE KEY", "pkcs8 ecdsa"),
     PEMKey("PRIVATE KEY", "pkcs8 rsa"),
     PEMKey("PRIVATE KEY", "pkcs8 ed25519"),
     PEMKey("PRIVATE KEY", "garbage"),
     PEMKey("EC PRIVATE KEY", "sec1 ecdsa"),
     PEMKey("ENCRYPTED PRIVATE KEY", "pkcs8 encrypted")}

IssuerIDs == {"", "issuer"}
KeyIDs == {"", "key"}

\* x509.ParsePKCS8PrivateKey(block.Bytes): the key, or "" on an error.
ParsePKCS8PrivateKey(bytes) ==
    IF bytes = "pkcs8 ecdsa" THEN "ecdsa"
    ELSE IF bytes = "pkcs8 rsa" THEN "rsa"
    ELSE IF bytes = "pkcs8 ed25519" THEN "ed25519"
    ELSE ""

Constructed(key) == [err |-> "", privateKey |-> key]
NotConstructed(err) == [err |-> err, privateKey |-> ""]

\* NewClient
NewClient(issuerID, keyID, privateKeyPEM) ==
    IF issuerID = "" THEN NotConstructed("issuer ID cannot be empty")
    ELSE IF keyID = "" THEN NotConstructed("key ID cannot be empty")
    ELSE IF privateKeyPEM.text = "" THEN NotConstructed("private key cannot be empty")
    ELSE IF privateKeyPEM.text # "pem"
    THEN NotConstructed("failed to parse private key PEM block")
    ELSE IF privateKeyPEM.type = "PRIVATE KEY"
    THEN IF ParsePKCS8PrivateKey(privateKeyPEM.bytes) = ""
         THEN NotConstructed("failed to parse PKCS8 private key")
         ELSE Constructed(ParsePKCS8PrivateKey(privateKeyPEM.bytes))
    ELSE NotConstructed("unsupported private key type")

NoConstruction ==
    [called |-> FALSE, issuerID |-> "", keyID |-> "",
     privateKeyPEM |-> EmptyKeyText, err |-> "", privateKey |-> ""]

NewClientStart == construction = NoConstruction

\* There is a Client.
HaveClient == construction.called /\ construction.err = ""

\* The provider is configured: NewClient is called, and called again with
\* another configuration after it failed.  jwt.SigningMethodES256 signs with
\* an *ecdsa.PrivateKey only.
NewClientCall ==
    /\ UNCHANGED outsideNewClient
    /\ ~HaveClient
    /\ \E issuerID \in IssuerIDs, keyID \in KeyIDs, privateKeyPEM \in PrivateKeyTexts :
          LET r == NewClient(issuerID, keyID, privateKeyPEM)
          IN /\ construction' =
                    [called |-> TRUE, issuerID |-> issuerID, keyID |-> keyID,
                     privateKeyPEM |-> privateKeyPEM, err |-> r.err,
                     privateKey |-> r.privateKey]
             /\ keyIsEC' = (r.privateKey = "ecdsa")
    /\ UNCHANGED <<clock, currentToken, tokenExpiry, muWriter, muReaders,
                   pc, token, ret, retErr, retAt, checkedAt, drift, issued>>

\* The requests made with the Client.
UseClient(c) ==
    /\ HaveClient
    /\ \/ DoCall(c)
       \/ InGetToken(c)
       \/ DoGotToken(c)
       \/ DoSend(c)

ClientNext ==
    \/ NewClientCall
    \/ Tick
    \/ \E c \in DoCallers : UseClient(c)

(***************************************************************************)
(* AppleAppStoreConnectProvider.Configure.  data is the configuration      *)
(* (issuer_id, key_id, private_key), env the three environment variables,  *)
(* "" for one that is not set.                                             *)
(***************************************************************************)
Credentials == {"issuer_id", "key_id", "private_key"}

\* An unset or empty credential: "" for the ids, no text for the key.
EmptyCredential(name) == IF name = "private_key" THEN EmptyKeyText ELSE ""

\* "Set values from environment variables if not set in configuration"
ResolveEnvFirst(data, env, name) ==
    IF env[name] # EmptyCredential(name) THEN env[name] ELSE data[name].v

Resolve(data, env, name) ==
    IF ~IsNull(data[name]) THEN data[name].v ELSE env[name]

UnknownErrors(data) ==
    {<<"Unknown", name>> : name \in {n \in Credentials : IsUnknown(data[n])}}

MissingErrors(data, env) ==
    {<<"Missing", name>> :
        name \in {n \in Credentials : Resolve(data, env, n) = EmptyCredential(n)}}

\* Configure: the diagnostics, whether NewClient was called and with what,
\* and whether resp.ResourceData and resp.DataSourceData were set.
ConfigureOf(data, env) ==
    LET issuerID == Resolve(data, env, "issuer_id")
        keyID == Resolve(data, env, "key_id")
        privateKey == Resolve(data, env, "private_key")
        made == NewClient(issuerID, keyID, privateKey)
        none == [errors |-> {}, newClient |-> FALSE, client |-> FALSE,
                 issuerID |-> issuerID, keyID |-> keyID, privateKey |-> privateKey,
                 made |-> made]
    IN IF UnknownErrors(data) # {}
       THEN [none EXCEPT !.errors = UnknownErrors(data)]
       ELSE IF MissingErrors(data, env) # {}
       THEN [none EXCEPT !.errors = MissingErrors(data, env)]
       ELSE IF made.err # ""
       THEN [none EXCEPT !.errors = {<<"Unable to Create Client", made.err>>},
                         !.newClient = TRUE]
       ELSE [none EXCEPT !.newClient = TRUE, !.client = TRUE]

ConfiguredIDs(name) == {Null(""), Unknown(""), Known(""), Known(name)}
ConfiguredKeys ==
    {Null(EmptyKeyText), Unknown(EmptyKeyText), Known(EmptyKeyText),
     Known(PEMKey("PRIVATE KEY", "pkcs8 ecdsa")), Known(NoPEMKeyText)}
EnvironmentKeys ==
    {EmptyKeyText, PEMKey("PRIVATE KEY", "pkcs8 ecdsa"),
     PEMKey("PRIVATE KEY", "garbage")}

NotConfigured ==
    [called |-> FALSE,
     data |-> [issuer_id |-> Null(""), key_id |-> Null(""),
               private_key |-> Null(EmptyKeyText)],
     env |-> [issuer_id |-> "", key_id |-> "", private_key |-> EmptyKeyText],
     errors |-> {}, client |-> FALSE]

ConfigureStart == configuration = NotConfigured

\* Terraform configures the provider once in a run.
Configure ==
    /\ UNCHANGED <<certVars, dataVars, doVars, funcVars>>
    /\ ~configuration.called
    /\ \E issuer \in ConfiguredIDs("issuer"), key \in ConfiguredIDs("key"),
          privateKey \in ConfiguredKeys,
          envIssuer \in {"", "ISSUER"}, envKey \in {"", "KEY"},
          envPrivateKey \in EnvironmentKeys :
          LET data == [issuer_id |-> issuer, key_id |-> key,
                       private_key |-> privateKey]
              env == [issuer_id |-> envIssuer, key_id |-> envKey,
                      private_key |-> envPrivateKey]
              r == ConfigureOf(data, env)
          IN /\ configuration' =
                    [called |-> TRUE, data |-> data, env |-> env,
                     errors |-> r.errors, client |-> r.client]
             /\ construction' =
                    IF r.newClient
                    THEN [called |-> TRUE, issuerID |-> r.issuerID,
                          keyID |-> r.keyID, privateKeyPEM |-> r.privateKey,
                          err |-> r.made.err, privateKey |-> r.made.privateKey]
                    ELSE construction
             /\ keyIsEC' = IF r.newClient THEN r.made.privateKey = "ecdsa"
                           ELSE keyIsEC
    /\ UNCHANGED <<clock, currentToken, tokenExpiry, muWriter, muReaders,
                   pc, token, ret, retErr, retAt, checkedAt, drift, issued>>

ConfigureNext == Configure

(***************************************************************************)
(* The functions pkcs12_encode and pkcs12_decode.  A PEM text is the        *)
(* sequence of its blocks; the bytes of a key block say how the key is     *)
(* encoded ("pkcs1 rsa", "sec1 ecdsa", "pkcs8 rsa", ...).                   *)
(***************************************************************************)
Block(type, bytes) == [type |-> type, bytes |-> bytes]
NoBlock == Block("", "")

\* pem.Decode: the first block of the text, or nil.
pemDecode(text) == IF Len(text) = 0 THEN NoBlock ELSE text[1]

\* x509.ParsePKCS1PrivateKey and x509.ParseECPrivateKey: the key, "" on an error.
ParsePKCS1PrivateKey(bytes) == IF bytes = "pkcs1 rsa" THEN "rsa" ELSE ""
ParseECPrivateKey(bytes) == IF bytes = "sec1 ecdsa" THEN "ecdsa" ELSE ""

\* x509.MarshalPKCS8PrivateKey
MarshalPKCS8PrivateKey(key) ==
    IF key = "rsa" THEN "pkcs8 rsa"
    ELSE IF key = "ecdsa" THEN "pkcs8 ecdsa"
    ELSE IF key = "ed25519" THEN "pkcs8 ed25519"
    ELSE ""

\* The switch on keyBlock.Type of EncodePKCS12Function.Run.
ParseKeyBlock(keyBlock) ==
    IF keyBlock.type = "RSA PRIVATE KEY"
    THEN [unsupported |-> FALSE, key |-> ParsePKCS1PrivateKey(keyBlock.bytes)]
    ELSE IF keyBlock.type = "EC PRIVATE KEY"
    THEN [unsupported |-> FALSE, key |-> ParseECPrivateKey(keyBlock.bytes)]
    ELSE IF keyBlock.type = "PRIVATE KEY"
    THEN [unsupported |-> FALSE, key |-> ParsePKCS8PrivateKey(keyBlock.bytes)]
    ELSE [unsupported |-> TRUE, key |-> ""]

\* A base64 text as pkcs12_decode sees it: whether it is base64 at all,
\* whether its bytes are a PKCS12 file, and that file: certificate, key,
\* password and the random salt of the encoder.
NoPfx == [cert |-> "", key |-> "", password |-> "", salt |-> 0]
InvalidBase64 == [valid |-> FALSE, isPfx |-> FALSE, pfx |-> NoPfx]
NotPKCS12 == [valid |-> TRUE, isPfx |-> FALSE, pfx |-> NoPfx]
EncodeToString(pfx) == [valid |-> TRUE, isPfx |-> TRUE, pfx |-> pfx]

\* EncodePKCS12Function.Run: the error, or the result.
EncodePKCS12(certPEM, keyPEM, password, salt) ==
    LET certBlock == pemDecode(certPEM)
        keyBlock == pemDecode(keyPEM)
        parsed == ParseKeyBlock(keyBlock)
    IN IF certBlock = NoBlock
       THEN [err |-> "Failed to parse certificate PEM", result |-> InvalidBase64]
       ELSE IF ~IsCertificate(certBlock.bytes)
       THEN [err |-> "Failed to parse certificate", result |-> InvalidBase64]
       ELSE IF keyBlock = NoBlock
       THEN [err |-> "Failed to parse private key PEM", result |-> InvalidBase64]
       ELSE IF parsed.unsupported
       THEN [err |-> "Unsupported private key type", result |-> InvalidBase64]
       ELSE IF parsed.key = ""
       THEN [err |-> "Failed to parse private key", result |-> InvalidBase64]
       ELSE [err |-> "",
             result |-> EncodeToString([cert |-> certBlock.bytes, key |-> parsed.key,
                                        password |-> password, salt |-> salt])]

NoDecoded == [certificate_pem |-> NoBlock, private_key_pem |-> NoBlock]

\* DecodePKCS12Function.Run: the error, or the result object.
DecodePKCS12TraditionalKey(pkcs12Base64, password) ==
    IF ~pkcs12Base64.valid
    THEN [err |-> "Failed to decode base64", result |-> NoDecoded]
    ELSE IF ~pkcs12Base64.isPfx \/ pkcs12Base64.pfx.password # password
    THEN [err |-> "Failed to decode PKCS12", result |-> NoDecoded]
    ELSE [err |-> "",
          result |-> [certificate_pem |-> Block("CERTIFICATE", pkcs12Base64.pfx.cert),
                      private_key_pem |->
                          IF pkcs12Base64.pfx.key = "rsa"
                          THEN Block("RSA PRIVATE KEY", "pkcs1 rsa")
                          ELSE IF pkcs12Base64.pfx.key = "ecdsa"
                          THEN Block("EC PRIVATE KEY", "sec1 ecdsa")
                          ELSE Block("PRIVATE KEY",
                                     MarshalPKCS8PrivateKey(pkcs12Base64.pfx.key))]]

DecodePKCS12(pkcs12Base64, password) ==
    IF ~pkcs12Base64.valid
    THEN [err |-> "Failed to decode base64", result |-> NoDecoded]
    ELSE IF ~pkcs12Base64.isPfx \/ pkcs12Base64.pfx.password # password
    THEN [err |-> "Failed to decode PKCS12", result |-> NoDecoded]
    ELSE [err |-> "",
          result |-> [certificate_pem |-> Block("CERTIFICATE", pkcs12Base64.pfx.cert),
                      private_key_pem |->
                          Block("PRIVATE KEY",
                                MarshalPKCS8PrivateKey(pkcs12Base64.pfx.key))]]

CertificateTexts ==
    {<<>>,
     <<Block("CERTIFICATE", "certA")>>,
     <<Block("CERTIFICATE", "junk")>>,
     <<Block("CERTIFICATE", "certB"), Block("CERTIFICATE", "certA")>>}
KeyTexts ==
    {<<>>,
     <<Block("RSA PRIVATE KEY", "pkcs1 rsa")>>,
     <<Block("EC PRIVATE KEY", "sec1 ecdsa")>>,
     <<Block("PRIVATE KEY", "pkcs8 rsa")>>,
     <<Block("PRIVATE KEY", "pkcs8 ecdsa")>>,
     <<Block("PRIVATE KEY", "pkcs8 ed25519")>>,
     <<Block("RSA PRIVATE KEY", "pkcs8 rsa")>>,
     <<Block("ENCRYPTED PRIVATE KEY", "pkcs8 encrypted")>>}
FunctionPasswords == {"", "pw"}

NoFunctionCall ==
    [stage |-> "none", certPEM |-> <<>>, keyPEM |-> <<>>, password |-> "",
     encodeErr |-> "", bundle |-> InvalidBase64,
     input |-> InvalidBase64, decodePassword |-> "", decodeErr |-> "",
     out |-> NoDecoded]

FunctionStart == fn = NoFunctionCall

outsideFunction == <<tokenVars, certVars, dataVars, doVars, newVars, configVars>>

\* A configuration calls provider::appleappstoreconnect::pkcs12_encode.
EncodeRun ==
    /\ UNCHANGED outsideFunction
    /\ fn.stage = "none"
    /\ \E certPEM \in CertificateTexts, keyPEM \in KeyTexts,
          password \in FunctionPasswords, salt \in Salts :
          LET r == EncodePKCS12(certPEM, keyPEM, password, salt)
          IN fn' = [NoFunctionCall EXCEPT
                      !.stage = "encoded", !.certPEM = certPEM, !.keyPEM = keyPEM,
                      !.password = password, !.encodeErr = r.err,
                      !.bundle = r.result]

\* ... and pkcs12_decode, on the result of pkcs12_encode or on another text.
DecodeRun ==
    /\ UNCHANGED outsideFunction
    /\ fn.stage = "encoded"
    /\ \E input \in {fn.bundle, InvalidBase64, NotPKCS12},
          password \in FunctionPasswords :
          LET r == DecodePKCS12(input, password)
          IN fn' = [fn EXCEPT
                      !.stage = "decoded", !.input = input,
                      !.decodePassword = password, !.decodeErr = r.err,
                      !.out = r.result]

FunctionNext ==
    \/ EncodeRun
    \/ DecodeRun

\* While one machine runs, the others rest in their initial states.
TokenIdle == keyIsEC = TRUE /\ TokenStart
CertIdle == rev = RevPKCS12 /\ CertStart

TokenSpecInit == TokenInit /\ CertIdle /\ DataStart /\ DoStart /\ NewClientStart /\ ConfigureStart /\ FunctionStart
TokenSpec == TokenSpecInit /\ [][TokenNext]_vars

\* getToken under the scheduling of Go: a goroutine that can take a step
\* takes it, and sync.RWMutex lets no blocked RLock or Lock wait for ever
\* while the lock keeps becoming free.
Running(c) ==
    \/ FastCheck(c)
    \/ FastReturn(c)
    \/ RUnlockMiss(c)
    \/ LockAcquired(c)
    \/ DoubleCheck(c)
    \/ generateToken(c)
    \/ Store(c)
    \/ UnlockReturn(c)

TokenFairness ==
    \A c \in Callers :
        /\ WF_vars(Running(c))
        /\ SF_vars(RLock(c))
        /\ SF_vars(Lock(c))

TokenLiveSpec == TokenSpecInit /\ [][TokenNext]_vars /\ TokenFairness

CertSpecInit == CertInit /\ TokenIdle /\ DataStart /\ DoStart /\ NewClientStart /\ ConfigureStart /\ FunctionStart
CertSpec == CertSpecInit /\ [][CertNext]_vars

\* Create on its own, over every certificate type.
CreateNext ==
    \/ CreatePKCS12(AllTypePlans(rev))
    \/ CreateThreshold(AllTypePlans(rev))
    \/ CreateBaseRev(AllTypePlans(rev))
    \/ DeleteTracked
    \/ DeleteBaseRev

CreateSpec == CertSpecInit /\ [][CreateNext]_vars

DataSpecInit == DataStart /\ TokenIdle /\ CertIdle /\ DoStart /\ NewClientStart /\ ConfigureStart /\ FunctionStart
DataSpec == DataSpecInit /\ [][DataNext]_vars

\* Client.Do with either kind of key.
DoSpecInit == TokenInit /\ DoStart /\ CertIdle /\ DataStart /\ NewClientStart /\ ConfigureStart /\ FunctionStart
DoSpec == DoSpecInit /\ [][DoNext]_vars

\* The Client from its construction on; before it there is no key.
ClientSpecInit ==
    /\ NewClientStart
    /\ keyIsEC = FALSE
    /\ TokenStart
    /\ DoStart
    /\ CertIdle
    /\ DataStart
    /\ ConfigureStart
    /\ FunctionStart
ClientSpec == ClientSpecInit /\ [][ClientNext]_vars

\* The provider from its configuration on.
ConfigureSpecInit ==
    /\ ConfigureStart
    /\ NewClientStart
    /\ keyIsEC = FALSE
    /\ TokenStart
    /\ DoStart
    /\ CertIdle
    /\ DataStart
    /\ FunctionStart
ConfigureSpec == ConfigureSpecInit /\ [][ConfigureNext]_vars

\* The two functions, called one after the other.
FunctionSpecInit ==
    FunctionStart /\ TokenIdle /\ CertIdle /\ DataStart /\ DoStart
        /\ NewClientStart /\ ConfigureStart
FunctionSpec == FunctionSpecInit /\ [][FunctionNext]_vars

\* The replacement policy on its own: a planning pass is handed whatever
\* record the state file holds, also one that this provider did not write.
UnparsableTimestamp == [wall |-> 240, suffix |-> "+00:00"]

TrackedExpirations ==
    {Null(NoTimestamp), Unknown(NoTimestamp), Known(NoTimestamp),
     Known(UnparsableTimestamp),
     Known(FormatExpiration(ExpiresAt(240, 0))),
     Known(FormatExpiration(ExpiresAt(960, 2)))}

Tracked(expiration) ==
    [NullModel EXCEPT !.present = TRUE,
                      !.id = Known("CERT1"),
                      !.certificate_type = Known(CertificateTypePassTypeID),
                      !.expiration_date = expiration]

PolicyInit ==
    /\ rev \in {RevPKCS12, RevThreshold}
    /\ nowHr = 0
    /\ last = NoOp
    /\ tfState \in {NullModel} \cup {Tracked(e) : e \in TrackedExpirations}

PolicyNext ==
    \/ Plan
    \/ Advance

PolicySpecInit ==
    PolicyInit /\ TokenIdle /\ DataStart /\ DoStart /\ NewClientStart
        /\ ConfigureStart /\ FunctionStart
PolicySpec == PolicySpecInit /\ [][PolicyNext]_vars

(***************************************************************************)
(* Claims about the token cache (checked under TokenSpec).                 *)
(***************************************************************************)
Returned(c) == pc[c] = "done" /\ ~retErr[c]

\* The validity window of the k-th cached token: from the clock reading its
\* generation rests on up to the refresh boundary (cached expiry - buffer).
InWindow(t, k) ==
    /\ issued[k].decidedAt <= t
    /\ t < issued[k].expiry - tokenRefreshBuffer

\* C1 (as stated): every token getToken returns without error is unexpired at
\* the moment of the return, whatever the interleaving and the clock do.
C1_NeverExpiredAtReturn ==
    \A c \in Callers : Returned(c) => retAt[c] < ret[c].exp

\* C1 (amended): a token returned without error is unexpired at the moment of
\* the return whenever the clock moved by at most the refresh buffer between
\* the clock reading its validity rests on and the return, counting the time
\* the generating call spent between stamping exp and stamping tokenExpiry.
C1_UnexpiredWithinBuffer ==
    \A c \in Callers :
        (Returned(c) /\ (retAt[c] - checkedAt[c]) + drift[c] <= tokenRefreshBuffer)
            => retAt[c] < ret[c].exp

\* A cached (not freshly generated) token of the second window was returned
\* after the clock had moved on since its check, still inside the buffer.
C1_Witness ==
    \E c \in Callers :
        /\ Returned(c)
        /\ ret[c].sig = 2
        /\ checkedAt[c] > ret[c].iat
        /\ retAt[c] > checkedAt[c]
        /\ (retAt[c] - checkedAt[c]) + drift[c] <= tokenRefreshBuffer

\* C2: one shared token per validity window: a token is generated only when
\* the cached one is no longer usable, so the windows of the issued tokens do
\* not overlap, and every caller is handed the token of the window its check
\* fell into; callers whose checks fall into the same window share one token.
C2_SingleTokenPerWindow ==
    /\ \A i, j \in 1..Len(issued) :
           i < j => issued[j].decidedAt >= issued[i].expiry - tokenRefreshBuffer
    /\ \A c \in Callers :
           Returned(c) =>
               \E k \in 1..Len(issued) :
                   /\ issued[k].tok = ret[c]
                   /\ InWindow(checkedAt[c], k)
    /\ \A c1, c2 \in Callers :
           (Returned(c1) /\ Returned(c2)
              /\ \E k \in 1..Len(issued) :
                     InWindow(checkedAt[c1], k) /\ InWindow(checkedAt[c2], k))
               => ret[c1] = ret[c2]

\* Two callers both missed the fast path at the same clock reading, one of
\* them generated the token and both returned it.
C2_Witness ==
    /\ Len(issued) = 1
    /\ \A c \in Callers : Returned(c) /\ ret[c] = issued[1].tok
    /\ \E c1, c2 \in Callers :
           /\ c1 # c2
           /\ drift[c1] = 0 /\ checkedAt[c1] = issued[1].decidedAt
           /\ checkedAt[c2] = checkedAt[c1]

\* C3 (as stated): all calls made within one lifetime window [iat, exp) of a
\* token return that same token string.
C3_SameTokenWithinLifetime ==
    \A c1, c2 \in Callers :
        (Returned(c1) /\ Returned(c2)
           /\ ret[c1].iat <= checkedAt[c1] /\ retAt[c1] < ret[c1].exp
           /\ ret[c1].iat <= checkedAt[c2] /\ retAt[c2] < ret[c1].exp)
            => ret[c2] = ret[c1]

\* C3 (amended): all calls whose validity check falls before the refresh
\* boundary of a token (cached expiry - 5 minutes) return that same token, and
\* a call checked at or after that boundary returns a different, later
\* generated token.
C3_SameTokenUntilRefreshBoundary ==
    /\ \A c1, c2 \in Callers :
           (Returned(c1) /\ Returned(c2))
               => \A k \in 1..Len(issued) :
                      (issued[k].tok = ret[c1] /\ InWindow(checkedAt[c2], k))
                          => ret[c2] = ret[c1]
    /\ \A c \in Callers :
           Returned(c) =>
               \A k \in 1..Len(issued) :
                   checkedAt[c] >= issued[k].expiry - tokenRefreshBuffer
                       => (ret[c] # issued[k].tok /\ ret[c].sig > k)

\* One caller still holds the first token, another one called after the
\* refresh boundary and was handed the second.
C3_Witness ==
    \E c1, c2 \in Callers :
        /\ Returned(c1) /\ Returned(c2)
        /\ Len(issued) >= 2
        /\ ret[c1] = issued[1].tok
        /\ ret[c2] = issued[2].tok
        /\ checkedAt[c2] >= issued[1].expiry - tokenRefreshBuffer

(***************************************************************************)
(* Claims about the certificate resource (checked under CertSpec, the one  *)
(* about Create's validation under CreateSpec).                            *)
(***************************************************************************)
\* The threshold a planning pass works with: the planned value, the default
\* of 30 days when none is planned.
PlannedThreshold(plan) ==
    IF plan.recreate_threshold.st = "known"
    THEN plan.recreate_threshold.v
    ELSE DefaultRecreateThreshold

\* The last operation was a planning pass over a tracked certificate whose
\* expiration is recorded.
PlannedOverTracked ==
    /\ last.op = "Plan"
    /\ tfState.present
    /\ last.plan.present
    /\ tfState.expiration_date.st = "known"

\* C4: on a planning pass over a tracked certificate, a nonzero recreate
\* threshold and a tracked expiration earlier than now + threshold flag the
\* record for replacement.
C4_ExpiringWithinThresholdIsFlagged ==
    (/\ PlannedOverTracked
     /\ PlannedThreshold(last.plan) # 0
     /\ tfState.expiration_date.v.wall < nowHr + PlannedThreshold(last.plan))
        => last.requiresReplace

\* C5: with a recreate threshold of exactly zero a planning pass never flags
\* the record for replacement, whatever the tracked expiration and the clock.
C5_ZeroThresholdNeverFlags ==
    (/\ last.op = "Plan"
     /\ last.plan.present
     /\ last.plan.recreate_threshold = Known(0))
        => ~last.requiresReplace

\* A planning pass with threshold zero over a certificate that has already
\* expired, and no replacement flagged.
C5_Witness ==
    /\ PlannedOverTracked
    /\ last.plan.recreate_threshold = Known(0)
    /\ tfState.expiration_date.v.wall < nowHr
    /\ ~last.requiresReplace

\* The plan supplies no pass_type_id association.
NoAssociation(plan) ==
    \/ plan.relationships.st # "known"
    \/ plan.relationships.v.pass_type_id.st = "null"

\* C6: Create fails with the validation error, with no remote call made and
\* no state written, exactly when the type is PASS_TYPE_ID or
\* PASS_TYPE_ID_WITH_NFC and no pass_type_id association is supplied; with any
\* of the other ten types a missing association is no validation failure.
C6_ValidationExactlyForPassTypes ==
    last.op = "Create" =>
        /\ ("Missing Pass Type ID" \in last.errors)
              <=> (/\ last.plan.certificate_type.v
                        \in {"PASS_TYPE_ID", "PASS_TYPE_ID_WITH_NFC"}
                   /\ NoAssociation(last.plan))
        /\ ("Missing Pass Type ID" \in last.errors)
              => (last.calls = <<>> /\ ~tfState.present)

\* Create of a PASS_TYPE_ID_WITH_NFC certificate without association has
\* failed on validation, nothing called and nothing stored.
C6_Witness ==
    /\ last.op = "Create"
    /\ last.plan.certificate_type.v = "PASS_TYPE_ID_WITH_NFC"
    /\ NoAssociation(last.plan)
    /\ last.errors = {"Missing Pass Type ID"}
    /\ last.calls = <<>>
    /\ ~tfState.present

\* C7: Delete issues no remote call, removes the record from tracking and
\* reports a warning, not an error; Delete of a tracked certificate always
\* completes.
C7_DeleteIsLocalAndCompletes ==
    last.op = "Delete" =>
        /\ last.calls = <<>>
        /\ last.errors = {}
        /\ last.warnings # {}
        /\ ~tfState.present

\* The planned type, CSR or association differs from the tracked one.
IdentityDiffers(plan, state) ==
    \/ plan.certificate_type # state.certificate_type
    \/ plan.csr_content # state.csr_content
    \/ plan.relationships # state.relationships

\* C8: an Update whose planned type, CSR or association differs from the
\* tracked value is rejected with an error and leaves tracked state as it was.
C8_IdentityChangeIsRejected ==
    [][(last'.op = "Update" /\ IdentityDiffers(last'.plan, tfState))
            => (last'.errors # {} /\ tfState' = tfState)]_vars

\* An Update of part_023 that planned another CSR has been refused; the
\* tracked CSR is still the old one.
C8_Witness ==
    /\ rev = RevPKCS12
    /\ last.op = "Update"
    /\ last.errors = {"Update Not Supported"}
    /\ last.plan.csr_content = Known("csrB")
    /\ tfState.csr_content = Known("csrA")

\* The fields an Update that changes only the private key or the bundle
\* password must leave alone.
OtherFields(s) ==
    <<s.present, s.id, s.certificate_type, s.csr_content, s.certificate_content,
      s.certificate_content_pem, s.certificate_ca_issuers, s.display_name, s.name,
      s.platform, s.serial_number, s.expiration_date, s.relationships,
      s.recreate_threshold>>

\* The bundle is the one of the tracked PEM with the planned key and password
\* (under some salt), and null when one of the three is missing.
BundleRecomputed(new, plan, state) ==
    /\ new.private_key_pem = plan.private_key_pem
    /\ new.pkcs12_bundle_password = plan.pkcs12_bundle_password
    /\ IF \/ plan.private_key_pem.st # "known"
          \/ plan.pkcs12_bundle_password.st # "known"
          \/ state.certificate_content_pem.st # "known"
       THEN new.pkcs12_bundle_content = Null(NoBundle)
       ELSE /\ new.pkcs12_bundle_content.st = "known"
            /\ new.pkcs12_bundle_content.v.cert = state.certificate_content_pem.v.der
            /\ new.pkcs12_bundle_content.v.key = plan.private_key_pem.v
            /\ new.pkcs12_bundle_content.v.password = plan.pkcs12_bundle_password.v

\* C9: an Update of part_023 that changes no more than the private key or the
\* bundle password makes no remote call and leaves every other stored field
\* as tracked; when it succeeds the stored bundle is the recomputed one.
C9_LocalInputsOnlyTouchBundle ==
    [][(/\ rev = RevPKCS12
        /\ last'.op = "Update"
        /\ ~IdentityDiffers(last'.plan, tfState))
            => (/\ last'.calls = <<>>
                /\ OtherFields(tfState') = OtherFields(tfState)
                /\ (last'.errors = {} => BundleRecomputed(tfState', last'.plan, tfState)))]_vars

\* An Update has put the password "pw2", which no Create configures, into
\* the record and the bundle of certificate A is encrypted under it.
C9_Witness ==
    /\ rev = RevPKCS12
    /\ last.op = "Update"
    /\ last.errors = {}
    /\ last.calls = <<>>
    /\ tfState.pkcs12_bundle_password = Known("pw2")
    /\ tfState.pkcs12_bundle_content.st = "known"
    /\ tfState.pkcs12_bundle_content.v.password = "pw2"
    /\ tfState.pkcs12_bundle_content.v.cert = "certA"
    /\ tfState.serial_number = Known("SN-A")

\* PEM and CA issuers of a record are the ones of its DER content, null
\* when that is empty.
DerivedFromDER(s) ==
    IF s.certificate_content.st = "known" /\ s.certificate_content.v # EmptyText
    THEN /\ s.certificate_content_pem =
                Known(convertDERToPEM(s.certificate_content.v).pem)
         /\ s.certificate_ca_issuers =
                Known(extractCertificateCAIssuers(s.certificate_content.v).issuers)
    ELSE /\ s.certificate_content_pem = Null(NoPEM)
         /\ s.certificate_ca_issuers = Null(<<>>)

\* C10: after a successful Create, Read or Update of part_023 the stored PEM
\* and CA issuers are exactly the values computed from the stored DER content,
\* null when the DER content is empty.
C10_DerivedFollowDER ==
    (/\ rev = RevPKCS12
     /\ last.op \in {"Create", "Read", "Update"}
     /\ last.errors = {}
     /\ tfState.present)
        => DerivedFromDER(tfState)

\* A Read has replaced the DER content of certificate A by that of
\* certificate B, and PEM and CA issuers are those of B.
C10_Witness ==
    /\ rev = RevPKCS12
    /\ last.op = "Read"
    /\ last.errors = {}
    /\ tfState.certificate_content = Known(Base64Of("certB"))
    /\ tfState.certificate_content_pem = Known([type |-> "CERTIFICATE", der |-> "certB"])
    /\ tfState.certificate_ca_issuers = Known(<<>>)
    /\ tfState.pkcs12_bundle_content.st = "known"
    /\ tfState.pkcs12_bundle_content.v.cert = "certA"

\* The stored bundle is the one of the stored PEM with the stored private key
\* and password: there when all three are, decrypting to exactly them.
BundleOfStored(s) ==
    IF /\ s.private_key_pem.st = "known"
       /\ s.pkcs12_bundle_password.st = "known"
       /\ s.certificate_content_pem.st = "known"
    THEN /\ s.pkcs12_bundle_content.st = "known"
         /\ s.pkcs12_bundle_content.v.cert = s.certificate_content_pem.v.der
         /\ s.pkcs12_bundle_content.v.key = s.private_key_pem.v
         /\ s.pkcs12_bundle_content.v.password = s.pkcs12_bundle_password.v
    ELSE s.pkcs12_bundle_content = Null(NoBundle)

\* C11: in stored state the PKCS12 bundle always corresponds to the stored
\* certificate bytes together with the stored private key and password, also
\* after a Read that replaced the DER content.
C11_BundleFollowsDER ==
    (/\ rev = RevPKCS12
     /\ last.op \in {"Create", "Read", "Update"}
     /\ last.errors = {}
     /\ tfState.present)
        => BundleOfStored(tfState)

(***************************************************************************)
(* Claims about the data sources (checked under DataSpec).                 *)
(***************************************************************************)
\* The records of the account the filter of the last Read selects.
Matches ==
    IF ds.source = "certificate"
    THEN LET Selected(cert) ==
                 /\ IsNull(ds.config.filter.certificate_type)
                    \/ cert.certificateType = ds.config.filter.certificate_type.v
                 /\ IsNull(ds.config.filter.serial_number)
                    \/ cert.serialNumber = ds.config.filter.serial_number.v
         IN SelectSeq(ds.certificates, Selected)
    ELSE LET Selected(p) == p.identifier = ds.config.filter.identifier.v
         IN SelectSeq(ds.passTypeIds, Selected)

\* The id the last Read stored.
StoredId ==
    IF ds.source = "certificate" THEN ds.certificate.id ELSE ds.passTypeId.id

\* C12: a Read by filter whose list request is answered, in the JSON:API
\* layout, fails with "Not Found" when no record matches, fails with
\* "Multiple Results" when two or more match, and succeeds with the one
\* matching record otherwise.
C12_FilterSelectsExactlyOne ==
    (/\ ds.source # "none"
     /\ ds.config.filter.present
     /\ ~ds.failed
     /\ ds.layout = "resource") =>
        /\ Len(Matches) = 0 => (ds.errors = {"Not Found"} /\ ~ds.stateSet)
        /\ Len(Matches) > 1 => (ds.errors = {"Multiple Results"} /\ ~ds.stateSet)
        /\ Len(Matches) = 1 =>
               /\ ds.errors = {}
               /\ ds.stateSet
               /\ StoredId = Known(Matches[1].id)

\* C13: a Create or a Read that ends with an error has written nothing: the
\* failed Create leaves the certificate untracked, the failed Read of the
\* resource leaves the tracked record as it was, and the failed Read of the
\* data source has set no state.
C13_FailureWritesNothing ==
    [][/\ (last'.op = "Create" /\ last'.errors # {}) => ~tfState'.present
       /\ (last'.op = "Read" /\ last'.errors # {}) => tfState' = tfState
       /\ (ds'.source = "certificate" /\ ds'.errors # {}) => ~ds'.stateSet]_vars

\* The half of C13 that is about the resource.
C13_ResourceFailureWritesNothing ==
    [][/\ (last'.op = "Create" /\ last'.errors # {}) => ~tfState'.present
       /\ (last'.op = "Read" /\ last'.errors # {}) => tfState' = tfState]_vars

(***************************************************************************)
(* Claims about Client.Do (checked under DoSpec).                          *)
(***************************************************************************)
\* The call of goroutine c has returned after the transport answered.
Answered(c) == doPc[c] = "done" /\ httpOut[c].kind = "response"

\* The pieces of an error message other than the fixed text around them.
Separators == {"API error: ", ": ", "; "}
Payload(message) ==
    LET Kept(piece) == piece \notin Separators IN SelectSeq(message, Kept)

\* Title and detail of every entry, in the order of the array.
TitlesAndDetails(errors) ==
    [i \in 1..(2 * Len(errors)) |->
        IF i % 2 = 1 THEN errors[(i + 1) \div 2].title
        ELSE errors[i \div 2].detail]

\* C14: when the body parses and its errors array is not empty, Client.Do
\* returns no data and one error whose message holds the title and the
\* detail of every entry, in the order of the array.
C14_ErrorsArrayBecomesOneError ==
    \A c \in DoCallers :
        (/\ Answered(c)
         /\ httpOut[c].body.kind = "document"
         /\ httpOut[c].body.errors # <<>>) =>
            /\ ~doRet[c].ok
            /\ doRet[c].data = JAbsent
            /\ Payload(doRet[c].message) = TitlesAndDetails(httpOut[c].body.errors)

C14_Witness ==
    \E c \in DoCallers :
        /\ Answered(c)
        /\ httpOut[c].body.kind = "document"
        /\ Len(httpOut[c].body.errors) = 2
        /\ httpOut[c].body.errors[1] # httpOut[c].body.errors[2]
        /\ httpOut[c].status = 200
        /\ ~doRet[c].ok

\* C15: Client.Do returns success only for a response with a status below
\* 400 and an empty errors array; a status of 400 or above with an
\* unparsable body is an error that carries the status code; a 2xx status
\* with an empty body is a success without data.
C15_SuccessOnlyBelow400WithoutErrors ==
    \A c \in DoCallers :
        /\ (doPc[c] = "done" /\ doRet[c].ok) =>
               /\ httpOut[c].kind = "response"
               /\ httpOut[c].status < 400
               /\ httpOut[c].body.errors = <<>>
        /\ (/\ Answered(c)
            /\ httpOut[c].status >= 400
            /\ httpOut[c].body.kind = "unparsable") =>
               /\ ~doRet[c].ok
               /\ doRet[c].status = httpOut[c].status
        /\ (/\ Answered(c)
            /\ httpOut[c].status >= 200
            /\ httpOut[c].status < 300
            /\ httpOut[c].body.kind = "empty") =>
               /\ doRet[c].ok
               /\ doRet[c].data = JAbsent

C15_Witness ==
    \E c \in DoCallers :
        /\ Answered(c)
        /\ httpOut[c].status = 200
        /\ httpOut[c].body.kind = "empty"
        /\ doRet[c].ok

\* What the transport gave the call is a failure.
Failed(out) ==
    \/ out.kind \in {"transport error", "read error"}
    \/ /\ out.kind = "response"
       /\ \/ out.status >= 400
          \/ out.body.kind = "unparsable"
          \/ out.body.errors # <<>>

\* C16: a call of Client.Do hands at most one request to the transport, and
\* a failure of that request is what the call returns.
C16_AtMostOneAttempt ==
    \A c \in DoCallers :
        /\ attempts[c] <= 1
        /\ (doPc[c] = "done" /\ Failed(httpOut[c])) =>
               (~doRet[c].ok /\ attempts[c] = 1)
        /\ (doPc[c] = "send") => attempts[c] = 0

C16_Witness ==
    \E c \in DoCallers :
        /\ doPc[c] = "done"
        /\ httpOut[c].kind = "transport error"
        /\ attempts[c] = 1
        /\ ~doRet[c].ok

\* C17: once signing has failed inside getToken, getToken goes on to its
\* return only, Client.Do returns the error without handing a request to the
\* transport, and the cached token and its expiry stay as they were.
C17_SigningFailureIsFatal ==
    [][\A c \in DoCallers :
          /\ (pc[c] = "generate" /\ retErr'[c]) =>
                 (pc'[c] = "unlock" /\ UNCHANGED <<currentToken, tokenExpiry>>)
          /\ (pc[c] = "unlock" /\ retErr[c]) =>
                 (pc'[c] \in {"unlock", "done"} /\ UNCHANGED <<currentToken, tokenExpiry>>)
          /\ (doPc[c] = "token" /\ pc[c] = "done" /\ retErr[c]) =>
                 /\ doPc'[c] \in {"token", "done"}
                 /\ UNCHANGED <<currentToken, tokenExpiry>>
                 /\ attempts'[c] = 0
                 /\ doPc'[c] = "done" =>
                        (~doRet'[c].ok /\ doRet'[c].data = JAbsent)]_vars

C17_Witness ==
    \E c \in DoCallers :
        /\ doPc[c] = "done"
        /\ retErr[c]
        /\ ~doRet[c].ok
        /\ doRet[c].message = <<"failed to get authentication token">>
        /\ attempts[c] = 0
        /\ clock > 0

(***************************************************************************)
(* Claims about NewClient (checked under ClientSpec).                      *)
(***************************************************************************)
\* C18: NewClient returns a Client only when issuer ID, key ID and private
\* key are not empty and the private key is an EC key in an unencrypted
\* PKCS8 PEM block.
C18_ClientOnlyWithECKey ==
    HaveClient =>
        /\ construction.issuerID # ""
        /\ construction.keyID # ""
        /\ construction.privateKeyPEM.text # ""
        /\ construction.privateKeyPEM = PEMKey("PRIVATE KEY", "pkcs8 ecdsa")

(***************************************************************************)
(* Claims about planning (checked under CertSpec).                         *)
(***************************************************************************)
\* C19: a planning pass over a tracked certificate that plans another
\* recreate_threshold than the tracked one marks the record for replacement.
C19_ThresholdChangeForcesReplacement ==
    (/\ last.op = "PlanThreshold"
     /\ tfState.present
     /\ tfState.recreate_threshold.st = "known"
     /\ last.plan.recreate_threshold.st = "known"
     /\ last.plan.recreate_threshold # tfState.recreate_threshold)
        => last.requiresReplace

\* C20: the replacement policy makes no remote call, and what it flags is a
\* tracked certificate whose recorded expiration lies before now plus the
\* planned threshold.
C20_PolicyUsesTrackedExpirationOnly ==
    last.op = "Plan" =>
        /\ last.calls = <<>>
        /\ last.requiresReplace =>
               /\ tfState.present
               /\ tfState.expiration_date.st = "known"
               /\ tfState.expiration_date.v.wall
                      < nowHr + PlannedThreshold(last.plan)

C20_Witness ==
    /\ PlannedOverTracked
    /\ last.requiresReplace
    /\ last.calls = <<>>
    /\ nowHr > 0

(***************************************************************************)
(* Import followed by the Read it triggers.                                *)
(***************************************************************************)
\* The record an import of certificate cert leaves behind: the fields the
\* response carries, and nothing for what only a configuration can give.
ImportedFrom(cert, s) ==
    /\ s.present
    /\ s.id = Known("CERT1")
    /\ s.certificate_type = Known(cert.certificateType)
    /\ s.certificate_content = Known(cert.certificateContent)
    /\ s.display_name = Known(cert.displayName)
    /\ s.name = Known(cert.name)
    /\ s.platform = Known(cert.platform)
    /\ s.serial_number = Known(cert.serialNumber)
    /\ DerivedFromDER(s)
    /\ cert.expirationDate.present => s.expiration_date.st = "known"
    /\ cert.passTypeId.present =>
           s.relationships = Known([pass_type_id |-> Known(cert.passTypeId.id)])
    /\ IsNull(s.csr_content)
    /\ IsNull(s.private_key_pem)
    /\ IsNull(s.pkcs12_bundle_password)
    /\ IsNull(s.pkcs12_bundle_content)

ImportedCertificates ==
    {out.cert : out \in {o \in CallOutcomes({CertificateTypePassTypeID,
                                            CertificateTypeIOSDevelopment}) :
                            o.kind = "ok"}}

\* C21: an import of part_023 given only the identifier, with the Read it
\* triggers, stores every field the remote response carries, and leaves the
\* CSR, the private key, the bundle password and the bundle unset.
C21_ImportPopulatesRemoteFieldsOnly ==
    (/\ rev = RevPKCS12
     /\ last.op = "ImportState"
     /\ last.errors = {})
        => \E cert \in ImportedCertificates : ImportedFrom(cert, tfState)

\* An import of a PASS_TYPE_ID certificate with content, expiration and a
\* pass type association has completed.
C21_Witness ==
    /\ rev = RevPKCS12
    /\ last.op = "ImportState"
    /\ last.errors = {}
    /\ tfState.certificate_type = Known(CertificateTypePassTypeID)
    /\ tfState.certificate_content = Known(Base64Of("certA"))
    /\ tfState.expiration_date.st = "known"
    /\ tfState.relationships.st = "known"
    /\ IsNull(tfState.pkcs12_bundle_content)

(***************************************************************************)
(* The certificates list.                                                  *)
(***************************************************************************)
\* part occurs in whole: whole = pre \o part \o post for some pre and post.
IsSubstring(part, whole) ==
    \E before \in 0..Len(whole), after \in 0..Len(whole) :
        /\ before + Len(part) + after = Len(whole)
        /\ \A k \in 1..Len(part) : whole[before + k] = part[k]

\* The certificates the service hands out for the configured type.
Fetched == CertificatesOfType(ds.listing, ds.listFilter.certificate_type)

\* The fetched certificates the display_name filter lets through, in order.
Expected ==
    IF ds.listFilter.present /\ ~IsNull(ds.listFilter.display_name)
    THEN LET Named(cert) == IsSubstring(ds.listFilter.display_name.v, cert.displayName)
         IN SelectSeq(Fetched, Named)
    ELSE Fetched

ListAnswered ==
    /\ ds.source = "certificates"
    /\ ~ds.failed
    /\ ds.layout = "resource"

\* C23: the certificates list read succeeds for any number of matches; it
\* issues one request with limit 200 and the type filter, and returns, in
\* response order, the fetched certificates whose display name contains the
\* display_name filter, or all of them without such a filter.
C23_ListReturnsSubstringMatches ==
    ListAnswered =>
        /\ ds.errors = {}
        /\ ds.stateSet
        /\ Len(ds.calls) = 1
        /\ ds.calls[1].endpoint = "/certificates"
        /\ ds.calls[1].limit = 200
        /\ ds.calls[1].certificateType = ds.listFilter.certificate_type
        /\ Len(ds.items) = Len(Expected)
        /\ \A i \in 1..Len(Expected) :
              /\ ds.items[i].id = Known(Expected[i].id)
              /\ ds.items[i].display_name = Known(Expected[i].displayName)

\* A list of two certificates was fetched and the one whose display name
\* holds the filter text past its first character was returned alone.
C23_Witness ==
    /\ ListAnswered
    /\ Len(ds.listing) = 2
    /\ ds.listFilter.display_name = Known(<<"a">>)
    /\ Len(ds.items) = 1
    /\ ds.items[1].display_name = Known(<<"b", "a">>)

\* A list read with a display_name filter nothing matches has succeeded
\* with an empty list.
C23_WitnessNoMatch ==
    /\ ListAnswered
    /\ Len(ds.listing) = 2
    /\ ds.listFilter.display_name = Known(<<"a", "b">>)
    /\ ds.stateSet
    /\ ds.items = <<>>

(***************************************************************************)
(* The stored expiration.                                                  *)
(***************************************************************************)
\* What is to be stored for the expiration e of a response: the null marker
\* when there is none, else its date and time followed by Z.
StoredFor(e) ==
    IF e.present THEN Known([wall |-> e.t + e.off, suffix |-> "Z"])
    ELSE Null(NoTimestamp)

\* The items of an answered list read carry the expiration of the
\* certificates they were made from.
ListedExpirationsFollowRemote ==
    (ListAnswered /\ ds.stateSet) =>
        \A i \in 1..Len(ds.items) :
            ds.items[i].expiration_date = StoredFor(Expected[i].expirationDate)

\* A read of the certificate data source by id was answered in the JSON:API
\* layout and has set state.
ReadById ==
    /\ ds.source = "certificate"
    /\ ~IsNull(ds.config.id)
    /\ ~ds.failed
    /\ ds.layout = "resource"
    /\ ds.stateSet
    /\ ds.errors = {}

\* The certificate the service answered a read by id with.
Requested == WithId(ds.certificates, ds.config.id.v)[1]

\* C22: the expiration stored by the data-source reads is the null marker
\* when the remote response carries no expiration, and the remote timestamp
\* in the fixed format otherwise.
C22_ExpirationIsRemoteOrNull ==
    /\ ListedExpirationsFollowRemote
    /\ ReadById => ds.certificate.expiration_date = StoredFor(Requested.expirationDate)

(***************************************************************************)
(* The single-certificate data source.                                     *)
(***************************************************************************)
\* The stored record carries cert as the service returned it.
StoredAsReturned(cert) ==
    /\ ds.errors = {}
    /\ ds.stateSet
    /\ ds.certificate.id = Known(cert.id)
    /\ ds.certificate.certificate_type = Known(cert.certificateType)
    /\ ds.certificate.certificate_content = Known(cert.certificateContent)
    /\ ds.certificate.serial_number = Known(cert.serialNumber)
    /\ ds.certificate.expiration_date = StoredFor(cert.expirationDate)

\* A read of the certificate data source was answered in the JSON:API layout.
CertificateAnswered ==
    /\ ds.source = "certificate"
    /\ ~ds.failed
    /\ ds.layout = "resource"

\* C24: a Read of the certificate data source by identifier, or by a filter
\* matching exactly one record, stores that certificate's id, type, DER
\* content, serial number and expiration date as returned in the data member
\* of the response.
C24_StoresCertificateAsReturned ==
    /\ (CertificateAnswered /\ ~IsNull(ds.config.id)
            /\ IsCertificate(Requested.certificateContent.bytes))
          => StoredAsReturned(Requested)
    /\ (CertificateAnswered /\ ds.config.filter.present /\ Len(Matches) = 1
            /\ IsCertificate(Matches[1].certificateContent.bytes))
          => StoredAsReturned(Matches[1])

(***************************************************************************)
(* The configuration of the provider.                                      *)
(***************************************************************************)
\* The value Configure is to use for a credential: the configured one when
\* the configuration has one, the environment variable otherwise.
Resolved(name) ==
    IF configuration.data[name].st = "known"
    THEN configuration.data[name].v
    ELSE configuration.env[name]

AllResolved == \A name \in Credentials : Resolved(name) # EmptyCredential(name)

\* C25: Configure uses the configured value of each credential when there is
\* one and the environment variable otherwise; there is a client only when
\* all three resolved values are non-empty, and otherwise Configure fails
\* without a client.
C25_ConfiguredValueThenEnvironment ==
    configuration.called =>
        /\ configuration.client =>
               /\ AllResolved
               /\ construction.issuerID = Resolved("issuer_id")
               /\ construction.keyID = Resolved("key_id")
               /\ construction.privateKeyPEM = Resolved("private_key")
               /\ construction.err = ""
        /\ ~AllResolved => (configuration.errors # {} /\ ~configuration.client)
        /\ configuration.client \/ configuration.errors # {}

\* The issuer id came from the environment variable, the key id from the
\* configuration although the environment variable was set too, and the
\* client was made of them.
C25_Witness ==
    /\ configuration.called
    /\ configuration.client
    /\ IsNull(configuration.data.issuer_id)
    /\ construction.issuerID = "ISSUER"
    /\ configuration.env.key_id = "KEY"
    /\ construction.keyID = "key"

(***************************************************************************)
(* pkcs12_encode and pkcs12_decode, one after the other.                   *)
(***************************************************************************)
\* The key a key text holds, however it is encoded.
KeyIn(text) ==
    IF Len(text) = 0 THEN ""
    ELSE IF text[1].bytes \in {"pkcs1 rsa", "pkcs8 rsa"} THEN "rsa"
    ELSE IF text[1].bytes \in {"sec1 ecdsa", "pkcs8 ecdsa"} THEN "ecdsa"
    ELSE IF text[1].bytes = "pkcs8 ed25519" THEN "ed25519"
    ELSE ""

\* pkcs12_decode was given the result of a successful pkcs12_encode of an
\* RSA or EC key, and the password of that call.
RoundTrip ==
    /\ fn.stage = "decoded"
    /\ fn.encodeErr = ""
    /\ KeyIn(fn.keyPEM) \in {"rsa", "ecdsa"}
    /\ fn.input = fn.bundle
    /\ fn.decodePassword = fn.password

InGetTokenCall(c) == pc[c] \notin {"idle", "done"}

\* The goroutine holds no part of c.mu.
HoldsNothing(c) == c \notin muReaders /\ muWriter # c

\* A goroutine that asks for the exclusive lock has given up the shared one,
\* and a goroutine outside getToken holds nothing.
LocksInOrder ==
    \A c \in Callers :
        /\ pc[c] \in {"lock", "lockwait"} => c \notin muReaders
        /\ pc[c] \in {"idle", "done"} => HoldsNothing(c)

\* C27: getToken never upgrades the lock, every call of every goroutine
\* returns, and it returns with the lock released.
C27_GetTokenAlwaysReturns ==
    /\ []LocksInOrder
    /\ \A c \in Callers : InGetTokenCall(c) ~> (pc[c] = "done" /\ HoldsNothing(c))

\* Both goroutines have returned, one of them with the error of a failed
\* generation, after both had been waiting for the exclusive lock.
C27_Witness ==
    /\ \A c \in Callers : pc[c] = "done" /\ HoldsNothing(c)
    /\ \E c \in Callers : retErr[c]
    /\ ~keyIsEC

(***************************************************************************)
(* The replacement policy.                                                 *)
(***************************************************************************)
\* The tracked expiration is a text the policy can read.
ReadableExpiration ==
    /\ tfState.expiration_date.st = "known"
    /\ tfState.expiration_date.v # NoTimestamp
    /\ tfState.expiration_date.v.suffix = "Z"

\* C28: the policy flags replacement only on a pass that has a tracked
\* record and a plan, and only when the tracked expiration is set, known,
\* non-empty and in the fixed format; it never raises an error.
C28_FlagsOnlyReadableTrackedRecords ==
    last.op = "Plan" =>
        /\ last.errors = {}
        /\ last.requiresReplace =>
               /\ tfState.present
               /\ last.plan.present
               /\ ReadableExpiration

\* A pass over a tracked record whose expiration is not in the fixed format,
\* long after the time it names, has flagged nothing and raised nothing.
C28_Witness ==
    /\ last.op = "Plan"
    /\ tfState.present
    /\ last.plan.present
    /\ tfState.expiration_date = Known(UnparsableTimestamp)
    /\ PlannedThreshold(last.plan) = DefaultRecreateThreshold
    /\ nowHr > tfState.expiration_date.v.wall
    /\ ~last.requiresReplace
    /\ last.errors = {}

\* A planning pass with the threshold thr planned, over a readable record.
PassWith(thr) ==
    /\ last.op = "Plan"
    /\ tfState.present
    /\ last.plan.present
    /\ last.plan.recreate_threshold = thr
    /\ ReadableExpiration

\* The times of the clock at which a later planning pass can run.
LaterPassTimes == {t \in nowHr..MaxHours : (t - nowHr) % HourStep = 0}

\* C29: with the tracked expiration and a nonzero threshold fixed, every
\* pass at a time later than expiration minus threshold flags replacement,
\* and once a pass has flagged it, a pass over the same record and plan at
\* any later time flags it too.
C29_FlaggedFromThresholdTimeOn ==
    \A thr \in PlanThresholds \ {Known(0)} :
        PassWith(thr) =>
            /\ (nowHr > tfState.expiration_date.v.wall - PlannedThreshold(last.plan)
                    => last.requiresReplace)
            /\ (last.requiresReplace =>
                    \A t \in LaterPassTimes : PlanModifyString(tfState, last.plan, t))

\* The threshold a pass is to compare against: the planned one, or the
\* default of 2592000 seconds when the plan has none.
ComparedThreshold ==
    IF last.plan.recreate_threshold.st = "known"
    THEN last.plan.recreate_threshold.v
    ELSE 2592000 \div 3600

\* C30: the policy compares against the planned threshold, not the tracked
\* one, and against the default of 30 days when the planned threshold is
\* unset or unknown; an import leaves the tracked threshold unset.
C30_PolicyUsesPlannedThreshold ==
    /\ (last.op = "Plan" /\ tfState.present /\ last.plan.present
            /\ ReadableExpiration) =>
           (last.requiresReplace <=>
               /\ ComparedThreshold # 0
               /\ tfState.expiration_date.v.wall < nowHr + Duration(ComparedThreshold))
    /\ (last.op = "ImportState" /\ last.errors = {}) =>
           IsNull(tfState.recreate_threshold)

\* A pass over an imported record, with no threshold planned, has flagged a
\* certificate that a threshold of one day would not have flagged.
C30_Witness ==
    /\ last.op = "Plan"
    /\ tfState.present
    /\ IsNull(tfState.csr_content)
    /\ IsNull(tfState.recreate_threshold)
    /\ ReadableExpiration
    /\ IsNull(last.plan.recreate_threshold)
    /\ last.requiresReplace
    /\ tfState.expiration_date.v.wall >= nowHr + 24

\* A pass over a record tracked with one threshold and planned with
\* another has followed the planned one: the tracked one would have decided
\* otherwise.
C30_WitnessPlannedOverTracked ==
    /\ last.op = "Plan"
    /\ tfState.present
    /\ last.plan.present
    /\ ReadableExpiration
    /\ tfState.recreate_threshold.st = "known"
    /\ last.plan.recreate_threshold.st = "known"
    /\ last.requiresReplace #
           (/\ tfState.recreate_threshold.v # 0
            /\ tfState.expiration_date.v.wall
                   < nowHr + Duration(tfState.recreate_threshold.v))

====
